---- MODULE Spec2Model ----
(***************************************************************************)
(* Y-DNA propagator (src/propagator.py over src/database.py and            *)
(* src/geni_client.py): the paternal-line propagation engine.              *)
(*                                                                         *)
(* The Store is the SQLite database (profiles, paternal_links, haplogroups *)
(* and the exploration checkpoints); the directory is the remote Geni      *)
(* service as seen through GeniClient.  Every engine operation is written  *)
(* in state-passing style over a context record ctx that carries the Store *)
(* tables, the log of Directory Client calls, the run's Stats and the      *)
(* status of the call (ok, raised, killed).                                *)
(***************************************************************************)
EXTENDS Integers, Sequences, FiniteSets, TLC

VARIABLES dir, profiles, paternal_links, haplogroups, explored, hist,
          max_gen_up, max_gen_down

vars == <<dir, profiles, paternal_links, haplogroups, explored, hist,
          max_gen_up, max_gen_down>>

(***************************************************************************)
(* Bounds of the model.                                                    *)
(***************************************************************************)
\* operations per behaviour
MaxOps == 2
\* operations per behaviour of the label-assignment specification
MaxAssignOps == 3
\* largest configured / requested generation limit
MaxGen == 3
\* a run may be terminated after 0..MaxKill committed writes
MaxKill == 16
\* the n-th Directory Client call of an operation may fail, n in 1..MaxFailAt
MaxFailAt == 4

(***************************************************************************)
(* Identifiers, labels, sources.                                           *)
(***************************************************************************)
Ids == {"A", "B", "C", "D", "E"}
None == "none"
Genders == {"male", "female"}
Labels == {"R-Z", "I-M"}
BaseSources == {"FTDNA", "Geni"}

\* f"propagated_{source}"
PropagatedSource(source) == "propagated_" \o source

Sources == BaseSources \cup {PropagatedSource(s) : s \in BaseSources}

\* "propagated" in source
ContainsPropagated(source) == source \in {PropagatedSource(s) : s \in BaseSources}

\* source == "FTDNA" or source == "YFull"
IsTestingSource(source) == source = "FTDNA" \/ source = "YFull"

(***************************************************************************)
(* Profile dicts.  A dict that came from the directory carries its         *)
(* identifier under "id"; a row read back from the profiles table carries  *)
(* it under "geni_id".                                                     *)
(***************************************************************************)
NoProfile == [id |-> None, shape |-> "none"]
ApiProfile(id) == [id |-> id, shape |-> "api"]
RowProfile(id) == [id |-> id, shape |-> "row"]

\* profile.get("id")
GetId(p) == IF p.shape = "api" THEN p.id ELSE None
\* profile.get("geni_id")
GetGeniId(p) == IF p.shape = "row" THEN p.id ELSE None
\* profile.get("id") or profile.get("geni_id")
IdOrGeniId(p) == IF GetId(p) # None THEN GetId(p) ELSE GetGeniId(p)
\* profile.get("geni_id") or profile.get("id")
GeniIdOrId(p) == IF GetGeniId(p) # None THEN GetGeniId(p) ELSE GetId(p)

(***************************************************************************)
(* The context threaded through one engine call.                           *)
(***************************************************************************)
EmptyStats == [root_profile_id |-> None, total_propagated |-> 0,
               skipped_explored |-> 0, generations |-> 0,
               conflicts |-> <<>>, ancestors_propagated |-> 0,
               descendants_propagated |-> 0]

CtxOf(store, d, gen_up, gen_down, mortal, fuel, failAt) ==
    [dir |-> d, max_gen_up |-> gen_up, max_gen_down |-> gen_down,
     profiles |-> store.profiles, paternal_links |-> store.paternal_links,
     haplogroups |-> store.haplogroups, explored |-> store.explored,
     calls |-> <<>>, stats |-> EmptyStats, status |-> "ok",
     mortal |-> mortal, fuel |-> fuel, failAt |-> failAt,
     ret |-> None, out |-> <<>>, resolved |-> <<>>]

\* the engine's resolver calls of one operation, in order
Called(ctx, fn, profile_id) ==
    IF ctx.status # "ok" THEN ctx
    ELSE [ctx EXCEPT !.resolved = Append(@, <<fn, profile_id>>)]

\* a profile step 3 of propagate_full_tree goes on from, its generation, the
\* value of stats["generations"] and the number of directory calls made so far
Visit(ctx, profile_id, generation) ==
    [ctx EXCEPT !.resolved = Append(@, <<"visit", profile_id, generation,
                                         ctx.stats.generations, Len(ctx.calls)>>)]

\* what a resolver call returned, logged after its call
Returned(ctx, fn, profile_id) ==
    IF ctx.status # "ok" THEN ctx
    ELSE [ctx EXCEPT !.resolved = Append(@, <<"returned", fn, profile_id, ctx.ret>>)]

Ret(ctx, v) == [ctx EXCEPT !.ret = v]

\* An exception leaves the enclosing calls at once.
Raise(ctx, exc) == IF ctx.status = "ok" THEN [ctx EXCEPT !.status = exc] ELSE ctx

\* conn.commit(): the write is durable; a process terminated before it loses
\* it.  A write that changes nothing leaves the same Store whether or not the
\* process survives it, so fuel counts the writes that change the Store.
Commit(ctx, new) ==
    IF ctx.status # "ok" \/ new = ctx THEN ctx
    ELSE IF ctx.mortal /\ ctx.fuel = 0 THEN [ctx EXCEPT !.status = "killed"]
    ELSE [new EXCEPT !.fuel = IF ctx.mortal THEN ctx.fuel - 1 ELSE ctx.fuel]

(***************************************************************************)
(* Database (src/database.py).                                             *)
(***************************************************************************)
InSeq(s, e) == \E i \in 1..Len(s) : s[i] = e

save_profile(ctx, id) ==
    Commit(ctx, [ctx EXCEPT !.profiles = @ \cup {id}])

RECURSIVE SaveAll(_, _)
SaveAll(ctx, ids) ==
    IF ids = <<>> THEN ctx ELSE SaveAll(save_profile(ctx, Head(ids)), Tail(ids))

\* INSERT OR IGNORE, UNIQUE(father_id, child_id), both foreign keys into profiles
add_paternal_link(ctx, father_id, child_id) ==
    IF ctx.status # "ok" THEN ctx
    ELSE IF father_id \notin ctx.profiles \/ child_id \notin ctx.profiles
    THEN Raise(ctx, "IntegrityError")
    ELSE Commit(ctx, IF \E k \in 1..Len(ctx.paternal_links) :
                            /\ ctx.paternal_links[k][1] = father_id
                            /\ ctx.paternal_links[k][2] = child_id
                     THEN ctx
                     ELSE [ctx EXCEPT !.paternal_links =
                                         Append(@, <<father_id, child_id>>)])

\* INSERT: profile_id NOT NULL and a foreign key, propagated_from a foreign key
add_haplogroup(ctx, profile_id, haplogroup, source, is_tested, propagated_from, confidence) ==
    IF ctx.status # "ok" THEN ctx
    ELSE IF profile_id \notin ctx.profiles
            \/ (propagated_from # None /\ propagated_from \notin ctx.profiles)
    THEN Raise(ctx, "IntegrityError")
    ELSE Commit(ctx, [ctx EXCEPT !.haplogroups = Append(@,
             [profile_id |-> profile_id, haplogroup |-> haplogroup,
              source |-> source, is_tested |-> is_tested,
              is_propagated |-> (propagated_from # None),
              propagated_from |-> propagated_from,
              confidence |-> confidence])])

db_get_profile(ctx, geni_id) ==
    IF geni_id \in ctx.profiles THEN RowProfile(geni_id) ELSE NoProfile

\* db_get_father with the join filtered on the wrong column (father_id)
db_get_father_wrong_column(ctx, child_id) ==
    LET hits == SelectSeq(ctx.paternal_links, LAMBDA l : l[1] = child_id)
    IN IF hits = <<>> THEN NoProfile ELSE RowProfile(Head(hits)[1])

\* fetchone() of the join on child_id: the first link stored for the child
db_get_father(ctx, child_id) ==
    LET hits == SelectSeq(ctx.paternal_links, LAMBDA l : l[2] = child_id)
    IN IF hits = <<>> THEN NoProfile ELSE RowProfile(Head(hits)[1])

RECURSIVE MapRow(_)
MapRow(ls) ==
    IF ls = <<>> THEN <<>> ELSE <<RowProfile(Head(ls)[2])>> \o MapRow(Tail(ls))

db_get_sons(ctx, father_id) ==
    MapRow(SelectSeq(ctx.paternal_links, LAMBDA l : l[1] = father_id))

\* fetchone() on an empty result
NoRow == [profile_id |-> None, haplogroup |-> None, source |-> None,
          is_tested |-> FALSE, is_propagated |-> FALSE,
          propagated_from |-> None, confidence |-> None]

\* db_get_haplogroup that sees tested assignments only (WHERE is_tested = 1)
db_get_haplogroup_tested_only(ctx, profile_id) ==
    LET mine == {i \in 1..Len(ctx.haplogroups) :
                    /\ ctx.haplogroups[i].profile_id = profile_id
                    /\ ctx.haplogroups[i].is_tested}
    IN IF mine = {} THEN NoRow
       ELSE ctx.haplogroups[CHOOSE i \in mine : \A j \in mine : i >= j]

\* ORDER BY is_tested DESC, created_at DESC LIMIT 1
db_get_haplogroup(ctx, profile_id) ==
    LET mine == {i \in 1..Len(ctx.haplogroups) :
                    ctx.haplogroups[i].profile_id = profile_id}
        best == {i \in mine : \A j \in mine :
                    \/ (ctx.haplogroups[i].is_tested /\ ~ctx.haplogroups[j].is_tested)
                    \/ (ctx.haplogroups[i].is_tested = ctx.haplogroups[j].is_tested
                        /\ i >= j)}
    IN IF mine = {} THEN NoRow ELSE ctx.haplogroups[CHOOSE i \in best : TRUE]

\* the exploration checkpoints (Store interface: isExplored, markExplored)
is_explored(ctx, profile_id, haplogroup) ==
    <<profile_id, haplogroup>> \in ctx.explored

mark_explored(ctx, profile_id, haplogroup) ==
    Commit(ctx, [ctx EXCEPT !.explored = @ \cup {<<profile_id, haplogroup>>}])

(***************************************************************************)
(* Directory Client (src/geni_client.py).  The directory answers with its  *)
(* canonical identifier for the profile, which may differ from the one the *)
(* caller supplied ("a" is a non-canonical identifier of profile "A").     *)
(***************************************************************************)
Aliases == {"a"}
CallerIds == Ids \cup Aliases
Canon(id) == IF id = "a" THEN "A" ELSE id

\* One request through _make_request: logged, and failing (an exception)
\* when its ordinal within the operation is in failAt.
ClientCall(ctx, kind, id) ==
    IF ctx.status # "ok" THEN ctx
    ELSE LET n == Len(ctx.calls) + 1
         IN [ctx EXCEPT !.calls = Append(@, <<kind, id>>),
                        !.ret = IF n \in ctx.failAt THEN "error" ELSE "ok"]

RECURSIVE MapApi(_)
MapApi(ids) ==
    IF ids = <<>> THEN <<>> ELSE <<ApiProfile(Head(ids))>> \o MapApi(Tail(ids))

\* Gender with the comparison to "male" lost: every profile passes for male
gender_not_compared(ctx, p) == "male"

Gender(ctx, p) == IF p.id \in Ids THEN ctx.dir.gender[p.id] ELSE None

(***************************************************************************)
(* Engine (src/propagator.py).                                             *)
(***************************************************************************)
fetch_and_save_profile(ctx, profile_id) ==
    IF ctx.status # "ok" THEN ctx
    ELSE IF db_get_profile(ctx, profile_id) # NoProfile
    THEN Ret(ctx, db_get_profile(ctx, profile_id))
    ELSE LET Fetched(c1) ==
                 IF c1.ret = "error" THEN Ret(c1, NoProfile)
                 ELSE Ret(save_profile(c1, Canon(profile_id)),
                          ApiProfile(Canon(profile_id)))
         IN Fetched(ClientCall(ctx, "profile", profile_id))

EmptyFamily == [focus |-> NoProfile, parents |-> <<>>, children |-> <<>>]

\* The parsed answer: focus, parents and children in the directory's order;
\* the focus and every profile node of the answer are saved.
fetch_immediate_family(ctx, profile_id) ==
    IF ctx.status # "ok" THEN Ret(ctx, EmptyFamily)
    ELSE LET focus_id == Canon(profile_id)
             parents == ctx.dir.parents[focus_id]
             children == ctx.dir.children[focus_id]
             Fetched(c1) ==
                 IF c1.ret = "error" THEN Ret(c1, EmptyFamily)
                 ELSE Ret(SaveAll(save_profile(c1, focus_id), parents \o children),
                          [focus |-> ApiProfile(focus_id),
                           parents |-> MapApi(parents),
                           children |-> MapApi(children)])
         IN Fetched(ClientCall(ctx, "family", profile_id))

\* get_father that returns the father it fetched without storing the link
get_father_unlinked(ctx, profile_id) ==
    IF ctx.status # "ok" THEN ctx
    ELSE IF db_get_father(ctx, profile_id) # NoProfile
    THEN Ret(ctx, db_get_father(ctx, profile_id))
    ELSE LET Fetched(c1) ==
                 LET males == SelectSeq(c1.ret.parents,
                                        LAMBDA p : Gender(ctx, p) = "male")
                 IN IF males = <<>> THEN Ret(c1, NoProfile)
                    ELSE Ret(save_profile(c1, GetId(Head(males))), Head(males))
         IN Fetched(fetch_immediate_family(ctx, profile_id))

\* get_father that links the father to the caller-supplied identifier
get_father_links_caller_id(ctx, profile_id) ==
    IF ctx.status # "ok" THEN ctx
    ELSE IF db_get_father(ctx, profile_id) # NoProfile
    THEN Ret(ctx, db_get_father(ctx, profile_id))
    ELSE LET Fetched(c1) ==
                 LET males == SelectSeq(c1.ret.parents,
                                        LAMBDA p : Gender(ctx, p) = "male")
                 IN IF males = <<>> THEN Ret(c1, NoProfile)
                    ELSE Ret(add_paternal_link(
                                 save_profile(c1, GetId(Head(males))),
                                 GetId(Head(males)), profile_id),
                             Head(males))
         IN Fetched(fetch_immediate_family(ctx, profile_id))

\* get_father that trusts the cache only when it holds a single father
get_father_refetches_ambiguous(ctx, profile_id) ==
    IF ctx.status # "ok" THEN ctx
    ELSE IF Len(SelectSeq(ctx.paternal_links, LAMBDA l : l[2] = profile_id)) = 1
    THEN Ret(ctx, db_get_father(ctx, profile_id))
    ELSE LET Fetched(c1) ==
                 LET males == SelectSeq(c1.ret.parents,
                                        LAMBDA p : Gender(ctx, p) = "male")
                 IN IF males = <<>> THEN Ret(c1, NoProfile)
                    ELSE Ret(add_paternal_link(
                                 save_profile(c1, GetId(Head(males))),
                                 GetId(Head(males)), Canon(profile_id)),
                             Head(males))
         IN Fetched(fetch_immediate_family(ctx, profile_id))

get_father(entry, profile_id) ==
    LET Entered(ctx) ==
            IF ctx.status # "ok" THEN ctx
            ELSE IF db_get_father(ctx, profile_id) # NoProfile
            THEN Ret(ctx, db_get_father(ctx, profile_id))
            ELSE LET Fetched(c1) ==
                         LET focus == c1.ret.focus
                             actual_child_id ==
                                 IF focus # NoProfile THEN GetId(focus) ELSE profile_id
                             males == SelectSeq(c1.ret.parents,
                                                LAMBDA p : Gender(ctx, p) = "male")
                             Saved(c2) ==
                                 IF males = <<>> THEN Ret(c2, NoProfile)
                                 ELSE Ret(add_paternal_link(
                                              save_profile(c2, GetId(Head(males))),
                                              GetId(Head(males)), actual_child_id),
                                          Head(males))
                         IN Saved(IF focus # NoProfile THEN save_profile(c1, focus.id)
                                  ELSE c1)
                 IN Fetched(fetch_immediate_family(ctx, profile_id))
    IN Returned(Entered(Called(entry, "get_father", profile_id)), "get_father", profile_id)

RECURSIVE LinkSons(_, _, _)
LinkSons(ctx, actual_parent_id, males) ==
    IF males = <<>> THEN ctx
    ELSE LinkSons(add_paternal_link(save_profile(ctx, GetId(Head(males))),
                                    actual_parent_id, GetId(Head(males))),
                  actual_parent_id, Tail(males))

\* get_sons that never reads the cached links
get_sons_always_fetch(ctx, profile_id, force_fetch) ==
    IF ctx.status # "ok" THEN Ret(ctx, <<>>)
    ELSE LET Fetched(c1) ==
                 LET focus == c1.ret.focus
                     actual_parent_id ==
                         IF focus # NoProfile THEN GetId(focus) ELSE profile_id
                     males == SelectSeq(c1.ret.children,
                                        LAMBDA p : Gender(ctx, p) = "male")
                 IN Ret(LinkSons(IF focus # NoProfile
                                 THEN save_profile(c1, focus.id) ELSE c1,
                                 actual_parent_id, males),
                        males)
         IN Fetched(fetch_immediate_family(ctx, profile_id))

\* get_sons that reads the cached links even when force_fetch is set
get_sons_force_ignored(ctx, profile_id, force_fetch) ==
    IF ctx.status # "ok" THEN Ret(ctx, <<>>)
    ELSE IF db_get_sons(ctx, profile_id) # <<>>
    THEN Ret(ctx, db_get_sons(ctx, profile_id))
    ELSE LET Fetched(c1) ==
                 LET focus == c1.ret.focus
                     actual_parent_id ==
                         IF focus # NoProfile THEN GetId(focus) ELSE profile_id
                     males == SelectSeq(c1.ret.children,
                                        LAMBDA p : Gender(ctx, p) = "male")
                 IN Ret(LinkSons(IF focus # NoProfile
                                 THEN save_profile(c1, focus.id) ELSE c1,
                                 actual_parent_id, males),
                        males)
         IN Fetched(fetch_immediate_family(ctx, profile_id))

get_sons(entry, profile_id, force_fetch) ==
    LET Entered(ctx) ==
            IF ctx.status # "ok" THEN Ret(ctx, <<>>)
            ELSE IF ~force_fetch /\ db_get_sons(ctx, profile_id) # <<>>
            THEN Ret(ctx, db_get_sons(ctx, profile_id))
            ELSE LET Fetched(c1) ==
                         LET focus == c1.ret.focus
                             actual_parent_id ==
                                 IF focus # NoProfile THEN GetId(focus) ELSE profile_id
                             males == SelectSeq(c1.ret.children,
                                                LAMBDA p : Gender(ctx, p) = "male")
                         IN Ret(LinkSons(IF focus # NoProfile
                                         THEN save_profile(c1, focus.id) ELSE c1,
                                         actual_parent_id, males),
                                males)
                 IN Fetched(fetch_immediate_family(ctx, profile_id))
    IN Returned(Entered(Called(entry, "get_sons", profile_id)), "get_sons", profile_id)

\* a call of _assign_haplogroup: the profile, the proposed label and the
\* label of the profile's current assignment (None without one)
Assigning(ctx, profile_id, haplogroup) ==
    IF ctx.status # "ok" THEN ctx
    ELSE [ctx EXCEPT !.resolved = Append(@,
             <<"assign", profile_id, haplogroup,
               IF db_get_haplogroup(ctx, profile_id) = NoRow THEN None
               ELSE db_get_haplogroup(ctx, profile_id).haplogroup>>)]

\* _assign_haplogroup that writes the new label over a differing one
assign_haplogroup_overwrite(ctx, profile_id, haplogroup, source) ==
    IF ctx.status # "ok" THEN ctx
    ELSE LET existing == db_get_haplogroup(ctx, profile_id)
             Added(c1) ==
                 IF c1.status # "ok" THEN c1
                 ELSE Ret([c1 EXCEPT !.stats.total_propagated = @ + 1], TRUE)
         IN IF existing # NoRow /\ existing.haplogroup = haplogroup
            THEN Ret(ctx, FALSE)
            ELSE Added(add_haplogroup(ctx, profile_id, haplogroup, source,
                                      IsTestingSource(source), None,
                                      IF ContainsPropagated(source)
                                      THEN "propagated" ELSE "confirmed"))

\* _assign_haplogroup that records the Conflict and then stores the new label
assign_haplogroup_latest_wins(ctx, profile_id, haplogroup, source) ==
    IF ctx.status # "ok" THEN ctx
    ELSE LET existing == db_get_haplogroup(ctx, profile_id)
             Added(c1) ==
                 IF c1.status # "ok" THEN c1
                 ELSE Ret([c1 EXCEPT !.stats.total_propagated = @ + 1], TRUE)
         IN IF existing # NoRow /\ existing.haplogroup = haplogroup
            THEN Ret(ctx, FALSE)
            ELSE Added(add_haplogroup(
                           IF existing # NoRow
                           THEN [ctx EXCEPT !.stats.conflicts = Append(@,
                                    [profile_id |-> profile_id,
                                     existing |-> existing.haplogroup,
                                     new |-> haplogroup])]
                           ELSE ctx,
                           profile_id, haplogroup, source,
                           IsTestingSource(source), None,
                           IF ContainsPropagated(source)
                           THEN "propagated" ELSE "confirmed"))

\* _assign_haplogroup that counts every call that met no differing label
assign_haplogroup_counts_calls(ctx, profile_id, haplogroup, source) ==
    IF ctx.status # "ok" THEN ctx
    ELSE LET existing == db_get_haplogroup(ctx, profile_id)
             Added(c1) ==
                 IF c1.status # "ok" THEN c1
                 ELSE Ret([c1 EXCEPT !.stats.total_propagated = @ + 1], TRUE)
         IN IF existing # NoRow
            THEN Ret(IF existing.haplogroup # haplogroup
                     THEN [ctx EXCEPT !.stats.conflicts = Append(@,
                              [profile_id |-> profile_id,
                               existing |-> existing.haplogroup,
                               new |-> haplogroup])]
                     ELSE [ctx EXCEPT !.stats.total_propagated = @ + 1], FALSE)
            ELSE Added(add_haplogroup(ctx, profile_id, haplogroup, source,
                                      IsTestingSource(source), None,
                                      IF ContainsPropagated(source)
                                      THEN "propagated" ELSE "confirmed"))

\* _assign_haplogroup that rewrites the label of the profile's rows in place
assign_haplogroup_update_in_place(ctx, profile_id, haplogroup, source) ==
    IF ctx.status # "ok" THEN ctx
    ELSE LET existing == db_get_haplogroup(ctx, profile_id)
             Added(c1) ==
                 IF c1.status # "ok" THEN c1
                 ELSE Ret([c1 EXCEPT !.stats.total_propagated = @ + 1], TRUE)
         IN IF existing # NoRow
            THEN Ret(Commit(ctx, [ctx EXCEPT !.haplogroups =
                        [k \in 1..Len(@) |->
                            IF @[k].profile_id = profile_id
                            THEN [@[k] EXCEPT !.haplogroup = haplogroup]
                            ELSE @[k]]]), FALSE)
            ELSE Added(add_haplogroup(ctx, profile_id, haplogroup, source,
                                      IsTestingSource(source), None,
                                      IF ContainsPropagated(source)
                                      THEN "propagated" ELSE "confirmed"))

assign_haplogroup(entry, profile_id, haplogroup, source) ==
    LET Proposed(ctx) ==
        IF ctx.status # "ok" THEN ctx
        ELSE LET existing == db_get_haplogroup(ctx, profile_id)
                 Added(c1) ==
                     IF c1.status # "ok" THEN c1
                     ELSE Ret([c1 EXCEPT !.stats.total_propagated = @ + 1], TRUE)
             IN IF existing # NoRow
                THEN Ret(IF existing.haplogroup # haplogroup
                         THEN [ctx EXCEPT !.stats.conflicts = Append(@,
                                  [profile_id |-> profile_id,
                                   existing |-> existing.haplogroup,
                                   new |-> haplogroup])]
                         ELSE ctx, FALSE)
                ELSE Added(add_haplogroup(ctx, profile_id, haplogroup, source,
                                          IsTestingSource(source), None,
                                          IF ContainsPropagated(source)
                                          THEN "propagated" ELSE "confirmed"))
    IN Proposed(Assigning(entry, profile_id, haplogroup))

\* callback=None, or propagate_haplogroup's propagation_callback
NoCallback == [kind |-> "none", haplogroup |-> None, source |-> None,
               source_profile_id |-> None]

\* propagation_callback that returns early only on a differing label
propagation_callback_relabels(ctx, cb, profile, generation, direction) ==
    IF ctx.status # "ok" \/ cb.kind = "none" THEN ctx
    ELSE LET profile_id == IdOrGeniId(profile)
             existing == db_get_haplogroup(ctx, profile_id)
             Added(c1) ==
                 IF c1.status # "ok" THEN c1
                 ELSE IF direction = "up"
                 THEN [c1 EXCEPT !.stats.ancestors_propagated = @ + 1]
                 ELSE [c1 EXCEPT !.stats.descendants_propagated = @ + 1]
         IN IF existing # NoRow /\ existing.haplogroup # cb.haplogroup
            THEN [ctx EXCEPT !.stats.conflicts = Append(@,
                     [profile_id |-> profile_id,
                      existing_haplogroup |-> existing.haplogroup,
                      new_haplogroup |-> cb.haplogroup,
                      generation |-> generation,
                      direction |-> direction])]
            ELSE Added(add_haplogroup(ctx, profile_id, cb.haplogroup,
                                      PropagatedSource(cb.source), FALSE,
                                      cb.source_profile_id, "propagated"))

propagation_callback(ctx, cb, profile, generation, direction) ==
    IF ctx.status # "ok" \/ cb.kind = "none" THEN ctx
    ELSE LET profile_id == IdOrGeniId(profile)
             existing == db_get_haplogroup(ctx, profile_id)
             Added(c1) ==
                 IF c1.status # "ok" THEN c1
                 ELSE IF direction = "up"
                 THEN [c1 EXCEPT !.stats.ancestors_propagated = @ + 1]
                 ELSE [c1 EXCEPT !.stats.descendants_propagated = @ + 1]
         IN IF existing # NoRow
            THEN IF existing.haplogroup # cb.haplogroup
                 THEN [ctx EXCEPT !.stats.conflicts = Append(@,
                          [profile_id |-> profile_id,
                           existing_haplogroup |-> existing.haplogroup,
                           new_haplogroup |-> cb.haplogroup,
                           generation |-> generation,
                           direction |-> direction])]
                 ELSE ctx
            ELSE Added(add_haplogroup(ctx, profile_id, cb.haplogroup,
                                      PropagatedSource(cb.source), FALSE,
                                      cb.source_profile_id, "propagated"))

\* while generation < max_generations: ...
RECURSIVE UpLoop(_, _, _, _, _, _)
UpLoop(ctx, current_id, generation, max_generations, ancestors, cb) ==
    IF ctx.status # "ok" THEN ctx
    ELSE IF ~(generation < max_generations) THEN Ret(ctx, ancestors)
    ELSE LET Got(c1) ==
                 IF c1.status # "ok" THEN c1
                 ELSE IF c1.ret = NoProfile THEN Ret(c1, ancestors)
                 ELSE UpLoop(propagation_callback(c1, cb, c1.ret,
                                                  generation + 1, "up"),
                             IdOrGeniId(c1.ret), generation + 1,
                             max_generations, Append(ancestors, c1.ret), cb)
         IN Got(get_father(ctx, current_id))

\* traverse_paternal_line_up counting the start profile as a generation
traverse_paternal_line_up_from_one(ctx, start_profile_id, max_generations, cb) ==
    UpLoop(ctx, start_profile_id, 1, max_generations, <<>>, cb)

\* traverse_paternal_line_up whose loop runs while generation <= max_generations
traverse_paternal_line_up_one_more(ctx, start_profile_id, max_generations, cb) ==
    UpLoop(ctx, start_profile_id, 0, max_generations + 1, <<>>, cb)

traverse_paternal_line_up(ctx, start_profile_id, max_generations, cb) ==
    UpLoop(ctx, start_profile_id, 0, max_generations, <<>>, cb)

\* traverse(current_id, generation, path), its result collected in ctx.out
RECURSIVE traverse(_, _, _, _, _, _), TraverseSons(_, _, _, _, _, _, _)
traverse(ctx, current_id, generation, path, max_generations, cb) ==
    IF ctx.status # "ok" THEN ctx
    ELSE IF generation > max_generations THEN ctx
    ELSE LET Got(c1) == TraverseSons(c1, c1.ret, 1, generation, path,
                                     max_generations, cb)
         IN Got(get_sons(ctx, current_id, FALSE))

\* the loop over sons appending each son after his subtree (post-order)
RECURSIVE TraverseSons_after_subtree(_, _, _, _, _, _, _)
TraverseSons_after_subtree(ctx, sons, i, generation, path, max_generations, cb) ==
    IF ctx.status # "ok" \/ i > Len(sons) THEN ctx
    ELSE LET son_id == IdOrGeniId(sons[i])
             c1 == traverse(ctx, son_id, generation + 1, path \o <<son_id>>,
                            max_generations, cb)
             c2 == IF c1.status # "ok" THEN c1
                   ELSE [c1 EXCEPT !.out = Append(@,
                            [profile |-> sons[i], generation |-> generation,
                             path |-> path \o <<son_id>>])]
             c3 == propagation_callback(c2, cb, sons[i], generation, "down")
         IN TraverseSons_after_subtree(c3, sons, i + 1, generation, path,
                                       max_generations, cb)

TraverseSons(ctx, sons, i, generation, path, max_generations, cb) ==
    IF ctx.status # "ok" \/ i > Len(sons) THEN ctx
    ELSE LET son_id == IdOrGeniId(sons[i])
             c1 == [ctx EXCEPT !.out = Append(@,
                       [profile |-> sons[i], generation |-> generation,
                        path |-> path \o <<son_id>>])]
             c2 == propagation_callback(c1, cb, sons[i], generation, "down")
             c3 == traverse(c2, son_id, generation + 1, path \o <<son_id>>,
                            max_generations, cb)
         IN TraverseSons(c3, sons, i + 1, generation, path, max_generations, cb)

\* traverse_paternal_line_down numbering the sons of the start generation 0
traverse_paternal_line_down_from_zero(ctx, start_profile_id, max_generations, cb) ==
    LET Done(c1) == IF c1.status # "ok" THEN c1 ELSE Ret(c1, c1.out)
    IN Done(traverse(ctx, start_profile_id, 0, <<start_profile_id>>,
                     max_generations, cb))

\* traverse_paternal_line_down going one generation below the limit
traverse_paternal_line_down_one_deeper(ctx, start_profile_id, max_generations, cb) ==
    LET Done(c1) == IF c1.status # "ok" THEN c1 ELSE Ret(c1, c1.out)
    IN Done(traverse(ctx, start_profile_id, 1, <<start_profile_id>>,
                     max_generations + 1, cb))

\* traverse_paternal_line_down whose paths leave out the start profile
traverse_paternal_line_down_bare_path(ctx, start_profile_id, max_generations, cb) ==
    LET Done(c1) == IF c1.status # "ok" THEN c1 ELSE Ret(c1, c1.out)
    IN Done(traverse(ctx, start_profile_id, 1, <<>>, max_generations, cb))

traverse_paternal_line_down(ctx, start_profile_id, max_generations, cb) ==
    LET Done(c1) == IF c1.status # "ok" THEN c1 ELSE Ret(c1, c1.out)
    IN Done(traverse(ctx, start_profile_id, 1, <<start_profile_id>>,
                     max_generations, cb))

\* build_paternal_tree without a tree name: ascend, descend from the most
\* distant ancestor, then one INSERT into paternal_trees (a table outside
\* the four Store tables; the row is the result returned here)
build_paternal_tree(ctx, root_profile_id) ==
    LET Created(c2, tree_root_id, ancestors) ==
            IF c2.status # "ok" THEN c2
            ELSE IF db_get_profile(c2, tree_root_id) = NoProfile
            THEN Raise(c2, "AttributeError")
            ELSE Ret(c2, [root_profile_id |-> tree_root_id,
                          total_ancestors |-> Len(ancestors),
                          total_descendants |-> Len(c2.ret)])
        Down(c1, tree_root_id) ==
            Created(traverse_paternal_line_down(c1, tree_root_id, ctx.max_gen_down,
                                                NoCallback),
                    tree_root_id, c1.ret)
        Up(c1) ==
            IF c1.status # "ok" THEN c1
            ELSE Down(c1, IF c1.ret # <<>>
                          THEN IdOrGeniId(c1.ret[Len(c1.ret)])
                          ELSE root_profile_id)
    IN Up(traverse_paternal_line_up(ctx, root_profile_id, ctx.max_gen_up, NoCallback))

propagate_haplogroup(ctx, source_profile_id, haplogroup, source, propagate_up, propagate_down) ==
    LET cb == [kind |-> "prop", haplogroup |-> haplogroup, source |-> source,
               source_profile_id |-> source_profile_id]
        Done(c4) == IF c4.status # "ok" THEN c4 ELSE Ret(c4, c4.stats)
        Down(c3) == IF propagate_down
                    THEN traverse_paternal_line_down(c3, source_profile_id,
                                                     ctx.max_gen_down, cb)
                    ELSE c3
        Up(c2) == IF propagate_up
                  THEN traverse_paternal_line_up(c2, source_profile_id,
                                                 ctx.max_gen_up, cb)
                  ELSE c2
    IN Done(Down(Up(add_haplogroup(
                        fetch_and_save_profile(ctx, source_profile_id),
                        source_profile_id, haplogroup, source, TRUE, None,
                        "confirmed"))))

RECURSIVE propagate_to_all_sons(_, _, _, _, _, _), SonsLoop(_, _, _, _, _, _, _, _)
\* the loop over the sons that goes on below a son only when the son took
\* the label or held it already
RECURSIVE SonsLoop_prunes_conflicts(_, _, _, _, _, _, _, _)
SonsLoop_prunes_conflicts(ctx, sons, i, generation, haplogroup, source, resume, known) ==
    IF ctx.status # "ok" \/ i > Len(sons) THEN ctx
    ELSE LET son_id == IF known THEN GeniIdOrId(sons[i]) ELSE IdOrGeniId(sons[i])
             c1 == assign_haplogroup(ctx, son_id, haplogroup,
                                     PropagatedSource(source))
             c2 == IF Len(c1.stats.conflicts) > Len(ctx.stats.conflicts) THEN c1
                   ELSE propagate_to_all_sons(c1, son_id, generation + 1,
                                              haplogroup, source, resume)
         IN SonsLoop_prunes_conflicts(c2, sons, i + 1, generation, haplogroup,
                                      source, resume, known)

\* propagate_to_all_sons that never consults the checkpoints
propagate_to_all_sons_unchecked(ctx, profile_id, generation, haplogroup, source, resume) ==
    IF ctx.status # "ok" THEN ctx
    ELSE IF generation > ctx.max_gen_down THEN ctx
    ELSE LET Looped(c3) ==
                 IF c3.status = "ok" /\ generation > c3.stats.generations
                 THEN [c3 EXCEPT !.stats.generations = generation]
                 ELSE c3
             Fetched(c1) ==
                 Looped(SonsLoop(mark_explored(c1, profile_id, haplogroup),
                                 c1.ret, 1, generation, haplogroup, source,
                                 resume, FALSE))
         IN Fetched(get_sons(ctx, profile_id, TRUE))

\* propagate_to_all_sons that takes a checkpoint under any label for its own
propagate_to_all_sons_any_label(ctx, profile_id, generation, haplogroup, source, resume) ==
    IF ctx.status # "ok" THEN ctx
    ELSE IF generation > ctx.max_gen_down THEN ctx
    ELSE IF resume /\ \E l \in Labels : is_explored(ctx, profile_id, l)
    THEN IF db_get_sons(ctx, profile_id) # <<>>
         THEN SonsLoop([ctx EXCEPT !.stats.skipped_explored = @ + 1],
                       db_get_sons(ctx, profile_id), 1, generation, haplogroup,
                       source, resume, TRUE)
         ELSE ctx
    ELSE LET Looped(c3) ==
                 IF c3.status = "ok" /\ generation > c3.stats.generations
                 THEN [c3 EXCEPT !.stats.generations = generation]
                 ELSE c3
             Fetched(c1) ==
                 Looped(SonsLoop(mark_explored(c1, profile_id, haplogroup),
                                 c1.ret, 1, generation, haplogroup, source,
                                 resume, FALSE))
         IN Fetched(get_sons(ctx, profile_id, TRUE))

propagate_to_all_sons(entry, profile_id, generation, haplogroup, source, resume) ==
    LET Visited(ctx) ==
            IF resume /\ is_explored(ctx, profile_id, haplogroup)
            THEN IF db_get_sons(ctx, profile_id) # <<>>
                 THEN SonsLoop([ctx EXCEPT !.stats.skipped_explored = @ + 1],
                               db_get_sons(ctx, profile_id), 1, generation, haplogroup,
                               source, resume, TRUE)
                 ELSE ctx
            ELSE LET Looped(c3) ==
                         IF c3.status = "ok" /\ generation > c3.stats.generations
                         THEN [c3 EXCEPT !.stats.generations = generation]
                         ELSE c3
                     Fetched(c1) ==
                         Looped(SonsLoop(mark_explored(c1, profile_id, haplogroup),
                                         c1.ret, 1, generation, haplogroup, source,
                                         resume, FALSE))
                 IN Fetched(get_sons(ctx, profile_id, TRUE))
    IN IF entry.status # "ok" THEN entry
       ELSE IF generation > entry.max_gen_down THEN entry
       ELSE Visited(Visit(entry, profile_id, generation))

SonsLoop(ctx, sons, i, generation, haplogroup, source, resume, known) ==
    IF ctx.status # "ok" \/ i > Len(sons) THEN ctx
    ELSE LET son_id == IF known THEN GeniIdOrId(sons[i]) ELSE IdOrGeniId(sons[i])
             c1 == assign_haplogroup(ctx, son_id, haplogroup,
                                     PropagatedSource(source))
             c2 == propagate_to_all_sons(c1, son_id, generation + 1,
                                         haplogroup, source, resume)
         IN SonsLoop(c2, sons, i + 1, generation, haplogroup, source, resume,
                     known)

\* propagate_full_tree that drops the caller's resume flag
propagate_full_tree_never_resumes(ctx, start_profile_id, haplogroup, source, resume) ==
    LET Done(c5) == IF c5.status # "ok" THEN c5 ELSE Ret(c5, c5.stats)
        Rooted(c2, ancestors) ==
            LET root_profile == IF ancestors # <<>> THEN ancestors[Len(ancestors)]
                                ELSE c2.ret
                root_id == IF ancestors # <<>> THEN IdOrGeniId(root_profile)
                           ELSE IF root_profile # NoProfile THEN GetId(root_profile)
                           ELSE start_profile_id
            IN IF c2.status # "ok" THEN c2
               ELSE Done(propagate_to_all_sons(
                        assign_haplogroup(
                            [c2 EXCEPT !.stats.root_profile_id = root_id],
                            root_id, haplogroup, source),
                        root_id, 1, haplogroup, source, FALSE))
        Ascended(c1) ==
            IF c1.status # "ok" THEN c1
            ELSE Rooted(IF c1.ret = <<>>
                        THEN fetch_and_save_profile(c1, start_profile_id)
                        ELSE c1,
                        c1.ret)
    IN Ascended(traverse_paternal_line_up(ctx, start_profile_id,
                                          ctx.max_gen_up, NoCallback))

\* propagate_full_tree that consults the checkpoints whatever the resume flag
propagate_full_tree_always_resumes(ctx, start_profile_id, haplogroup, source, resume) ==
    LET Done(c5) == IF c5.status # "ok" THEN c5 ELSE Ret(c5, c5.stats)
        Rooted(c2, ancestors) ==
            LET root_profile == IF ancestors # <<>> THEN ancestors[Len(ancestors)]
                                ELSE c2.ret
                root_id == IF ancestors # <<>> THEN IdOrGeniId(root_profile)
                           ELSE IF root_profile # NoProfile THEN GetId(root_profile)
                           ELSE start_profile_id
            IN IF c2.status # "ok" THEN c2
               ELSE Done(propagate_to_all_sons(
                        assign_haplogroup(
                            [c2 EXCEPT !.stats.root_profile_id = root_id],
                            root_id, haplogroup, source),
                        root_id, 1, haplogroup, source, TRUE))
        Ascended(c1) ==
            IF c1.status # "ok" THEN c1
            ELSE Rooted(IF c1.ret = <<>>
                        THEN fetch_and_save_profile(c1, start_profile_id)
                        ELSE c1,
                        c1.ret)
    IN Ascended(traverse_paternal_line_up(ctx, start_profile_id,
                                          ctx.max_gen_up, NoCallback))

propagate_full_tree(ctx, start_profile_id, haplogroup, source, resume) ==
    LET Done(c5) == IF c5.status # "ok" THEN c5 ELSE Ret(c5, c5.stats)
        Rooted(c2, ancestors) ==
            LET root_profile == IF ancestors # <<>> THEN ancestors[Len(ancestors)]
                                ELSE c2.ret
                root_id == IF ancestors # <<>> THEN IdOrGeniId(root_profile)
                           ELSE IF root_profile # NoProfile THEN GetId(root_profile)
                           ELSE start_profile_id
            IN IF c2.status # "ok" THEN c2
               ELSE Done(propagate_to_all_sons(
                        assign_haplogroup(
                            [c2 EXCEPT !.stats.root_profile_id = root_id],
                            root_id, haplogroup, source),
                        root_id, 1, haplogroup, source, resume))
        Ascended(c1) ==
            IF c1.status # "ok" THEN c1
            ELSE Rooted(IF c1.ret = <<>>
                        THEN fetch_and_save_profile(c1, start_profile_id)
                        ELSE c1,
                        c1.ret)
    IN Ascended(traverse_paternal_line_up(ctx, start_profile_id,
                                          ctx.max_gen_up, NoCallback))

(***************************************************************************)
(* Directories.                                                            *)
(***************************************************************************)
\* The end-to-end mock: father chain A -> B -> C, C's children [D, E].
ScenarioWorld ==
    [gender |-> [i \in Ids |-> IF i = "E" THEN "female" ELSE "male"],
     parents |-> [i \in Ids |-> CASE i = "A" -> <<"B">>
                                  [] i = "B" -> <<"C">>
                                  [] i = "C" -> <<>>
                                  [] OTHER -> <<"C">>],
     children |-> [i \in Ids |-> IF i = "C" THEN <<"D", "E">> ELSE <<>>]]

\* Consistent directories: a forest over ForestIds given by a father function
\* (a father comes later in IdSeq than his children), every child of a father
\* also being a child of the female profile "E".
IdSeq == <<"A", "B", "C", "D", "E">>
ForestIds == {"A", "B", "C", "D"}
Pos(id) == CHOOSE k \in 1..Len(IdSeq) : IdSeq[k] = id

Fathers ==
    {f \in [ForestIds -> ForestIds \cup {None}] :
        \A i \in ForestIds : f[i] = None \/ Pos(f[i]) > Pos(i)}

ForestWorld(f) ==
    [gender |-> [i \in Ids |-> IF i = "E" THEN "female" ELSE "male"],
     parents |-> [i \in Ids |-> IF i \in ForestIds /\ f[i] # None
                                THEN <<"E", f[i]>> ELSE <<>>],
     children |-> [i \in Ids |->
         SelectSeq(IdSeq, LAMBDA j : /\ j \in ForestIds
                                     /\ f[j] # None
                                     /\ (i = "E" \/ f[j] = i))]]

\* the forests that are one tree (rooted at "D"), and the mock
TreeFathers == {f \in Fathers : \A i \in ForestIds \ {"D"} : f[i] # None}
TreeWorlds == {ForestWorld(f) : f \in TreeFathers}
Worlds == {ScenarioWorld} \cup TreeWorlds

(***************************************************************************)
(* Operations.  hist records each call: its arguments, the Store before    *)
(* it, what it returned, the Directory Client calls it made.               *)
(***************************************************************************)
Store == [profiles |-> profiles, paternal_links |-> paternal_links,
          haplogroups |-> haplogroups, explored |-> explored]

EmptyStore == [profiles |-> {}, paternal_links |-> <<>>, haplogroups |-> <<>>,
               explored |-> {}]

MkCtx(mortal, fuel, failAt) ==
    CtxOf(Store, dir, max_gen_up, max_gen_down, mortal, fuel, failAt)

NoFail == {}
FailSets == {NoFail} \cup {{n} : n \in 1..MaxFailAt}

OpRecord(op, id, label, source, flag, m, kill, failAt, ctx) ==
    [op |-> op, id |-> id, label |-> label, source |-> source, flag |-> flag,
     m |-> m, kill |-> kill, failAt |-> failAt, pre |-> Store,
     status |-> ctx.status, ret |-> ctx.ret, calls |-> ctx.calls,
     stats |-> ctx.stats, resolved |-> ctx.resolved]

Apply(rec, ctx) ==
    /\ profiles' = ctx.profiles
    /\ paternal_links' = ctx.paternal_links
    /\ haplogroups' = ctx.haplogroups
    /\ explored' = ctx.explored
    /\ hist' = Append(hist, rec)
    /\ UNCHANGED <<dir, max_gen_up, max_gen_down>>

FetchProfile(id, failAt) ==
    LET ctx == fetch_and_save_profile(MkCtx(FALSE, 0, failAt), id)
    IN Apply(OpRecord("fetchProfile", id, None, None, FALSE, 0, FALSE, failAt, ctx), ctx)

AssignLabel(id, label, source) ==
    LET ctx == assign_haplogroup(MkCtx(FALSE, 0, NoFail), id, label, source)
    IN Apply(OpRecord("assignLabel", id, label, source, FALSE, 0, FALSE, NoFail, ctx), ctx)

ResolveFather(id, failAt) ==
    LET ctx == get_father(MkCtx(FALSE, 0, failAt), id)
    IN Apply(OpRecord("resolveFather", id, None, None, FALSE, 0, FALSE, failAt, ctx), ctx)

ResolveSons(id, force, failAt) ==
    LET ctx == get_sons(MkCtx(FALSE, 0, failAt), id, force)
    IN Apply(OpRecord("resolveSons", id, None, None, force, 0, FALSE, failAt, ctx), ctx)

Ascend(id, m, failAt) ==
    LET ctx == traverse_paternal_line_up(MkCtx(FALSE, 0, failAt), id, m, NoCallback)
    IN Apply(OpRecord("ascend", id, None, None, FALSE, m, FALSE, failAt, ctx), ctx)

Descend(id, m, failAt) ==
    LET ctx == traverse_paternal_line_down(MkCtx(FALSE, 0, failAt), id, m, NoCallback)
    IN Apply(OpRecord("descend", id, None, None, FALSE, m, FALSE, failAt, ctx), ctx)

BuildTree(id, failAt) ==
    LET ctx == build_paternal_tree(MkCtx(FALSE, 0, failAt), id)
    IN Apply(OpRecord("buildTree", id, None, None, FALSE, 0, FALSE, failAt, ctx), ctx)

Propagate(id, label, source, up, down, failAt) ==
    LET ctx == propagate_haplogroup(MkCtx(FALSE, 0, failAt), id, label, source, up, down)
    IN Apply(OpRecord("propagate", id, label, source, up, IF down THEN 1 ELSE 0,
                      FALSE, failAt, ctx), ctx)

PropagateFullTree(id, label, source, resume, failAt) ==
    LET ctx == propagate_full_tree(MkCtx(FALSE, 0, failAt), id, label, source, resume)
    IN Apply(OpRecord("fullTree", id, label, source, resume, 0, FALSE, failAt, ctx), ctx)

\* The process is terminated after `writes` committed writes of the run.
TerminatedFullTree(id, label, source, resume, writes) ==
    LET ctx == propagate_full_tree(MkCtx(TRUE, writes, NoFail), id, label, source, resume)
    IN /\ ctx.status = "killed"
       /\ Apply(OpRecord("fullTree", id, label, source, resume, writes, TRUE, NoFail, ctx), ctx)

InitStore ==
    /\ profiles = {}
    /\ paternal_links = <<>>
    /\ haplogroups = <<>>
    /\ explored = {}
    /\ hist = <<>>

InitScenario ==
    /\ dir = ScenarioWorld
    /\ max_gen_up = MaxGen
    /\ max_gen_down = MaxGen
    /\ InitStore

\* the Store after the i-th recorded call
Post(i) == IF i < Len(hist) THEN hist[i + 1].pre ELSE Store

RowsOf(store, id) ==
    {k \in 1..Len(store.haplogroups) : store.haplogroups[k].profile_id = id}

(***************************************************************************)
(* Label assignment on its own: profiles are cached (fetchProfile), given  *)
(* tested labels (propagate) and labelled (assignLabel).                   *)
(***************************************************************************)
AssignIds == {"A", "D"}

NextAssign ==
    /\ Len(hist) < MaxAssignOps
    /\ \/ \E id \in AssignIds, failAt \in {NoFail, {1}} : FetchProfile(id, failAt)
       \/ \E id \in AssignIds, label \in Labels, source \in Sources :
              AssignLabel(id, label, source)
       \/ \E id \in AssignIds, label \in Labels :
              Propagate(id, label, "FTDNA", FALSE, FALSE, NoFail)

SpecAssign == InitScenario /\ [][NextAssign]_vars

\* C1: assignLabel(profile, B, source) on a profile whose current assignment
\* has another label A returns assigned = false, appends exactly one Conflict
\* (profile, existing A, new B), inserts no Assignment row, and the profile's
\* current assignment is still A afterwards.
C1_ConflictDetection ==
    \A i \in 1..Len(hist) :
        LET h == hist[i]
            cur == db_get_haplogroup(h.pre, h.id)
        IN (h.op = "assignLabel" /\ cur # NoRow /\ cur.haplogroup # h.label)
           => /\ h.status = "ok"
              /\ h.ret = FALSE
              /\ h.stats.conflicts = <<[profile_id |-> h.id,
                                        existing |-> cur.haplogroup,
                                        new |-> h.label]>>
              /\ Post(i).haplogroups = h.pre.haplogroups
              /\ db_get_haplogroup(Post(i), h.id) = cur

C1_Witness ==
    \E i \in 1..Len(hist) :
        LET h == hist[i]
            cur == db_get_haplogroup(h.pre, h.id)
        IN /\ h.op = "assignLabel" /\ cur # NoRow /\ cur.haplogroup # h.label
           /\ h.status = "ok" /\ h.ret = FALSE /\ Len(h.stats.conflicts) = 1

\* C2: for a profile cached in the Store with no prior assignment, calling
\* assignLabel(profile, L, source) twice leaves exactly one Assignment row for
\* the profile; the first call returns assigned = true, the second
\* assigned = false, and the second adds no Conflict and leaves
\* total_propagated unchanged.
C2_Idempotence ==
    \A i \in 1..(Len(hist) - 1) :
        LET h1 == hist[i]
            h2 == hist[i + 1]
        IN (/\ h1.op = "assignLabel" /\ h2.op = "assignLabel"
            /\ h1.id = h2.id /\ h1.label = h2.label /\ h1.source = h2.source
            /\ h1.id \in h1.pre.profiles
            /\ RowsOf(h1.pre, h1.id) = {})
           => /\ h1.status = "ok" /\ h1.ret = TRUE
              /\ h2.status = "ok" /\ h2.ret = FALSE
              /\ Cardinality(RowsOf(Post(i + 1), h1.id)) = 1
              /\ h2.stats.conflicts = <<>>
              /\ h2.stats.total_propagated = 0
              /\ h1.stats.total_propagated = 1

C2_Witness ==
    \E i \in 1..(Len(hist) - 1) :
        /\ hist[i].op = "assignLabel" /\ hist[i + 1].op = "assignLabel"
        /\ hist[i].id = hist[i + 1].id /\ hist[i].label = hist[i + 1].label
        /\ hist[i].source = hist[i + 1].source
        /\ RowsOf(hist[i].pre, hist[i].id) = {}
        /\ hist[i].status = "ok" /\ hist[i + 1].status = "ok"
        /\ hist[i].ret = TRUE /\ hist[i + 1].ret = FALSE
        /\ Cardinality(RowsOf(Store, hist[i].id)) = 1

(***************************************************************************)
(* Resolvers and ascent over the consistent directories and the mock.      *)
(***************************************************************************)
InitWorlds ==
    /\ dir \in Worlds
    /\ max_gen_up = MaxGen
    /\ max_gen_down = MaxGen
    /\ InitStore

OneFail == {NoFail, {1}}

NextResolve ==
    /\ Len(hist) < MaxOps
    /\ \/ \E id \in Ids, failAt \in OneFail : ResolveFather(id, failAt)
       \/ \E id \in Ids, force \in BOOLEAN : ResolveSons(id, force, NoFail)
       \/ \E id \in Ids, m \in 0..MaxGen : Ascend(id, m, NoFail)
       \/ \E id \in Ids : Ascend(id, MaxGen, {1})

SpecResolve == InitWorlds /\ [][NextResolve]_vars

\* the fathers the Store links to a child, in the order they were stored
StoredFathers(store, child) ==
    SelectSeq(store.paternal_links, LAMBDA l : l[2] = child)

\* C6: in every state where the Store holds a Paternal Link (father, child),
\* resolveFather(child) returns the cached Profile of the father stored for
\* the child and makes zero calls to the Directory Client.
C6_CacheFirstFather ==
    \A i \in 1..Len(hist) :
        LET h == hist[i]
        IN (h.op = "resolveFather" /\ StoredFathers(h.pre, h.id) # <<>>)
           => /\ h.status = "ok"
              /\ h.calls = <<>>
              /\ h.ret = RowProfile(Head(StoredFathers(h.pre, h.id))[1])
              /\ h.ret.id \in h.pre.profiles

C6_Witness ==
    \E i \in 1..Len(hist) :
        /\ hist[i].op = "resolveFather"
        /\ StoredFathers(hist[i].pre, hist[i].id) # <<>>
        /\ hist[i].calls = <<>>
        /\ hist[i].ret.shape = "row"

\* The father of p as the data give it: the father the Store links to p, else
\* the first male parent the directory reports for p.
DataFather(store, d, p) ==
    IF StoredFathers(store, p) # <<>> THEN Head(StoredFathers(store, p))[1]
    ELSE LET males == SelectSeq(d.parents[p], LAMBDA q : d.gender[q] = "male")
         IN IF males = <<>> THEN None ELSE Head(males)

\* the father chain above p, nearest first, cut after n fathers
RECURSIVE FatherChain(_, _, _, _)
FatherChain(store, d, p, n) ==
    IF n = 0 \/ DataFather(store, d, p) = None THEN <<>>
    ELSE <<DataFather(store, d, p)>>
         \o FatherChain(store, d, DataFather(store, d, p), n - 1)

Min(a, b) == IF a < b THEN a ELSE b

\* C7: for every acyclic chain of N male fathers above startId (reported by
\* the directory or linked in the Store) and every maxGenerations = M >= 0,
\* ascend(startId, M) returns exactly min(N, M) profiles, nearest ancestor
\* first, each being the father of the previous element.
C7_AscendResult ==
    \A i \in 1..Len(hist) :
        LET h == hist[i]
            chain == FatherChain(h.pre, dir, h.id, Cardinality(Ids))
        IN (/\ h.op = "ascend" /\ h.failAt = NoFail
            /\ \A k \in 1..Len(chain) : dir.gender[chain[k]] = "male")
           => /\ h.status = "ok"
              /\ Len(h.ret) = Min(Len(chain), h.m)
              /\ \A k \in 1..Len(h.ret) : IdOrGeniId(h.ret[k]) = chain[k]

C7_Witness ==
    \E i \in 1..Len(hist) :
        LET h == hist[i]
            chain == FatherChain(h.pre, dir, h.id, Cardinality(Ids))
        IN /\ h.op = "ascend" /\ h.failAt = NoFail
           /\ Len(chain) = 3 /\ h.m = 2 /\ Len(h.ret) = 2
           /\ h.pre.paternal_links # <<>>
           /\ IdOrGeniId(h.ret[1]) = chain[1]
           /\ IdOrGeniId(h.ret[2]) = chain[2]

(***************************************************************************)
(* Descent, on its own and after an ascent in the same Store.              *)
(***************************************************************************)
NextDescend ==
    /\ Len(hist) < MaxOps
    /\ \/ \E id \in Ids : Ascend(id, MaxGen, NoFail)
       \/ \E id \in Ids, m \in 0..MaxGen : Descend(id, m, NoFail)
       \/ \E id \in Ids : Descend(id, MaxGen, {1})

SpecDescend == InitWorlds /\ [][NextDescend]_vars

\* the identifier chain from P down to q as the directory's parents give it
\* (<<>> when q is not below P within n generations)
RECURSIVE PathDown(_, _, _, _)
PathDown(d, P, q, n) ==
    IF q = P THEN <<P>>
    ELSE IF n = 0 \/ DataFather(EmptyStore, d, q) = None THEN <<>>
    ELSE LET up == PathDown(d, P, DataFather(EmptyStore, d, q), n - 1)
         IN IF up = <<>> THEN <<>> ELSE Append(up, q)

\* what descend(P, M) is to return: one entry per descendant at depth 1..M
Descendants(d, P, M) ==
    {[id |-> q, generation |-> Len(PathDown(d, P, q, M)) - 1,
      path |-> PathDown(d, P, q, M)] :
        q \in {r \in Ids \ {P} : PathDown(d, P, r, M) # <<>>}}

Entries(ret) ==
    {[id |-> IdOrGeniId(ret[k].profile), generation |-> ret[k].generation,
      path |-> ret[k].path] : k \in 1..Len(ret)}

\* C8: for every finite tree of male profiles rooted at P and every
\* maxGenerations = M, descend(P, M) on an initially empty Store returns
\* exactly one entry for each descendant at depth d with 1 <= d <= M, with
\* generation = d and path = the identifier chain from P down to it, and no
\* other entries.
C8_DescendCompleteness ==
    (/\ hist # <<>> /\ hist[1].op = "descend" /\ hist[1].failAt = NoFail
     /\ dir \in TreeWorlds /\ hist[1].id \in ForestIds)
    => /\ hist[1].status = "ok"
       /\ Entries(hist[1].ret) = Descendants(dir, hist[1].id, hist[1].m)
       /\ Len(hist[1].ret) = Cardinality(Descendants(dir, hist[1].id, hist[1].m))

\* P = D with sons B, C, and B with son A: B@1, A@2 with path [D, B, A], C@1
C8_Witness ==
    /\ hist # <<>> /\ hist[1].op = "descend" /\ hist[1].failAt = NoFail
    /\ dir \in TreeWorlds /\ hist[1].id = "D" /\ hist[1].m = 2
    /\ Len(hist[1].ret) = 3
    /\ [id |-> "A", generation |-> 2, path |-> <<"D", "B", "A">>]
           \in Entries(hist[1].ret)
    /\ [id |-> "C", generation |-> 1, path |-> <<"D", "C">>]
           \in Entries(hist[1].ret)

\* ascend(A) over the mock's chain A -> B -> C on an empty Store, followed by
\* descend(C), both with a limit the chain does not reach
AscendThenDescend ==
    /\ dir = ScenarioWorld /\ Len(hist) = 2
    /\ hist[1].op = "ascend" /\ hist[1].id = "A" /\ hist[1].m = MaxGen
    /\ hist[2].op = "descend" /\ hist[2].id = "C" /\ hist[2].m = MaxGen
    /\ hist[2].failAt = NoFail

\* C9 as stated: after ascend(A, 50) over A -> B -> C, with the directory
\* reporting C's children as [D (male), E (female)], descend(C, 50) returns
\* exactly the single entry D at generation 1.
C9_DescendAfterAscend ==
    AscendThenDescend
    => Entries(hist[2].ret) =
           {[id |-> "D", generation |-> 1, path |-> <<"C", "D">>]}

FirstGeneration(ret) == SelectSeq(ret, LAMBDA e : e.generation = 1)

\* C9 amended: descend(P) is cache-first.  When the Store already holds
\* Paternal Links from P, descend(P) returns at generation 1 exactly the
\* children those links name, without asking the directory about P; only
\* when the Store holds no link from P does it return the male children the
\* directory reports.  After ascend(A) over A -> B -> C, descend(C) returns
\* B at generation 1 and A at generation 2, and not D.
C9_DescendIsCacheFirst ==
    /\ \A i \in 1..Len(hist) :
           LET h == hist[i]
               cached == db_get_sons(h.pre, h.id)
               first == FirstGeneration(h.ret)
           IN (h.op = "descend" /\ h.failAt = NoFail /\ h.m >= 1)
              => /\ h.status = "ok"
                 /\ cached # <<>> =>
                        /\ [k \in 1..Len(first) |-> first[k].profile] = cached
                        /\ ~InSeq(h.calls, <<"family", h.id>>)
                 /\ cached = <<>> =>
                        /\ [k \in 1..Len(first) |-> first[k].profile] =
                               MapApi(SelectSeq(dir.children[h.id],
                                        LAMBDA q : dir.gender[q] = "male"))
                        /\ h.calls # <<>> /\ h.calls[1] = <<"family", h.id>>
    /\ AscendThenDescend
       => Entries(hist[2].ret) =
              {[id |-> "B", generation |-> 1, path |-> <<"C", "B">>],
               [id |-> "A", generation |-> 2, path |-> <<"C", "B", "A">>]}

C9_Witness ==
    /\ AscendThenDescend
    /\ hist[2].pre.paternal_links = <<<<"B", "A">>, <<"C", "B">>>>
    /\ Len(hist[2].ret) = 2
    /\ hist[2].ret[1].profile = RowProfile("B")

(***************************************************************************)
(* Full-tree propagation: complete runs, runs with a failing Directory     *)
(* Client call, runs terminated after a prefix of their writes, and        *)
(* resumed runs.                                                           *)
(***************************************************************************)
\* the descent limit is one short of the deepest tree, the ascent limit is not
InitFull ==
    /\ dir \in Worlds
    /\ max_gen_up = MaxGen
    /\ max_gen_down = MaxGen - 1
    /\ InitStore

\* a leaf, a profile in mid-tree, the root of the trees, the female profile
FullStarts == {"A", "C", "D", "E"}

NextFull ==
    /\ Len(hist) < MaxOps
    /\ \/ \E id \in FullStarts, label \in Labels, resume \in BOOLEAN,
             failAt \in FailSets :
              PropagateFullTree(id, label, "FTDNA", resume, failAt)
       \/ \E id \in FullStarts, writes \in 0..MaxKill :
              TerminatedFullTree(id, "R-Z", "FTDNA", FALSE, writes)

SpecFull == InitFull /\ [][NextFull]_vars

\* the profiles holding an assignment with label L
Labelled(store, L) ==
    {store.haplogroups[k].profile_id :
        k \in {j \in 1..Len(store.haplogroups) : store.haplogroups[j].haplogroup = L}}

\* a complete run (not terminated, nothing raised) of propagateFullTree
IsFullRun(h, resume) ==
    h.op = "fullTree" /\ h.flag = resume /\ ~h.kill /\ h.status = "ok"

\* run h2 resumes run h1: same start profile, same label
Resumes(h1, h2) ==
    /\ h1.op = "fullTree" /\ ~h1.flag
    /\ IsFullRun(h2, TRUE)
    /\ h2.id = h1.id /\ h2.label = h1.label /\ h2.source = h1.source

\* the calls of run h that address a profile checkpointed for h's label
\* before the run
CheckpointedCalls(h) ==
    SelectSeq(h.calls, LAMBDA c : <<Canon(c[2]), h.label>> \in h.pre.explored)

Uninterrupted(h) ==
    propagate_full_tree(CtxOf(h.pre, dir, max_gen_up, max_gen_down, FALSE, 0,
                              NoFail),
                        h.id, h.label, h.source, FALSE)

\* the male children the directory reports for p
ReportedSons(d, p) == SelectSeq(d.children[p], LAMBDA q : d.gender[q] = "male")

\* the male profiles the directory exposes below p within n generations
RECURSIVE MaleDescendants(_, _, _)
MaleDescendants(d, p, n) ==
    IF n = 0 \/ p \notin Ids THEN {}
    ELSE LET sons == {ReportedSons(d, p)[k] : k \in 1..Len(ReportedSons(d, p))}
         IN sons \cup UNION {MaleDescendants(d, s, n - 1) : s \in sons}

\* C4 as stated: if propagateFullTree(x, L, resume=false) is terminated
\* after any prefix of its Store writes and propagateFullTree(x, L,
\* resume=true) is then run to completion on the unchanged directory with no
\* fetch failures, then every male descendant of the root that the directory
\* exposes within the depth limit holds label L, and the set of labelled
\* profiles equals that of an uninterrupted resume=false run.
C4_InterruptedThenResume ==
    \A i \in 1..(Len(hist) - 1) :
        LET h1 == hist[i]
            h2 == hist[i + 1]
        IN (/\ h1.op = "fullTree" /\ h1.kill
            /\ Resumes(h1, h2) /\ h2.failAt = NoFail
            /\ Uninterrupted(h1).status = "ok")
           => /\ MaleDescendants(dir, h2.stats.root_profile_id, max_gen_down)
                     \subseteq Labelled(Post(i + 1), h2.label)
              /\ Labelled(Post(i + 1), h2.label)
                     = Labelled(Uninterrupted(h1), h2.label)

\* C5 as stated: in every reachable Store state, (p, L) is an Exploration
\* Checkpoint only if an immediate-family fetch for p succeeded during a
\* propagation of L and every male child reported by that fetch has a stored
\* Paternal Link p -> child; when the forced fetch of p's sons fails, (p, L)
\* is not recorded.
C5_CheckpointMeansFetched ==
    \A e \in explored :
        /\ \E i \in 1..Len(hist) :
               /\ hist[i].op = "fullTree" /\ hist[i].label = e[2]
               /\ \E k \in 1..Len(hist[i].calls) :
                      /\ hist[i].calls[k] = <<"family", e[1]>>
                      /\ k \notin hist[i].failAt
        /\ \A k \in 1..Len(ReportedSons(dir, e[1])) :
               InSeq(paternal_links, <<e[1], ReportedSons(dir, e[1])[k]>>)

\* C10: with father chain A -> B -> C (C has no father), the directory
\* reporting C's children as [D (male), E (female)], D having no children,
\* and no prior assignments, propagateFullTree(A, "R-Z", resume=false)
\* returns Stats with root = C and total_propagated = 2, and afterwards
\* exactly C and D hold an assignment with label R-Z (E holds none).
C10_FullTreeEndToEnd ==
    \A i \in 1..Len(hist) :
        LET h == hist[i]
        IN (/\ dir = ScenarioWorld
            /\ h.op = "fullTree" /\ ~h.flag /\ ~h.kill /\ h.failAt = NoFail
            /\ h.id = "A" /\ h.label = "R-Z"
            /\ h.pre.haplogroups = <<>>)
           => /\ h.status = "ok"
              /\ h.ret.root_profile_id = "C"
              /\ h.ret.total_propagated = 2
              /\ Labelled(Post(i), "R-Z") = {"C", "D"}
              /\ RowsOf(Post(i), "E") = {}
              /\ Len(Post(i).haplogroups) = 2

C10_Witness ==
    /\ dir = ScenarioWorld /\ Len(hist) = 1
    /\ IsFullRun(hist[1], FALSE) /\ hist[1].failAt = NoFail
    /\ hist[1].id = "A" /\ hist[1].label = "R-Z"
    /\ hist[1].calls = <<<<"family", "A">>, <<"family", "B">>, <<"family", "C">>,
                         <<"family", "C">>, <<"family", "D">>>>
    /\ Labelled(Store, "R-Z") = {"C", "D"}
    /\ explored = {<<"C", "R-Z">>, <<"D", "R-Z">>}

\* the ascent of run h from its start profile finds no father: the Store
\* links none to it and the directory reports no male parent
AscentFindsNothing(h) ==
    DataFather(h.pre, dir, Canon(h.id)) = None /\ StoredFathers(h.pre, h.id) = <<>>

\* C11 as stated: whenever the ascent of propagateFullTree(anyId, L) finds no
\* father, the run uses anyId itself as root: Stats' root identifier is that
\* profile's directory identifier (never none) and the profile holds an
\* assignment afterwards, whether or not anyId's profile was cached in the
\* Store when the root was chosen.
C11_RootFallback ==
    \A i \in 1..Len(hist) :
        LET h == hist[i]
        IN (/\ h.op = "fullTree" /\ ~h.kill /\ h.failAt = NoFail
            /\ AscentFindsNothing(h))
           => /\ h.status = "ok"
              /\ h.stats.root_profile_id = Canon(h.id)
              /\ RowsOf(Post(i), Canon(h.id)) # {}

(***************************************************************************)
(* Resumed full-tree runs, with a son added to the directory between runs. *)
(* The directories are the forests over A, C and D rooted at D or smaller   *)
(* (B starts outside every family); a run may name profile A by a          *)
(* non-canonical identifier.                                               *)
(***************************************************************************)
\* operations per behaviour of the resume specification
MaxResumeOps == 3

NewSon == "B"

ResumeFathers ==
    {f \in Fathers : /\ f["D"] = None /\ f[NewSon] = None
                      /\ \A i \in ForestIds : f[i] # NewSon}
ResumeWorlds == {ForestWorld(f) : f \in ResumeFathers}

InitResume ==
    /\ dir \in ResumeWorlds
    /\ max_gen_up = MaxGen
    /\ max_gen_down = MaxGen - 1
    /\ InitStore

\* Between two runs the directory gains the male profile NewSon as a son of p.
AddSon(p) ==
    /\ \E f \in ResumeFathers :
           /\ dir = ForestWorld(f)
           /\ dir' = ForestWorld([f EXCEPT ![NewSon] = p])
    /\ hist' = Append(hist, OpRecord("addSon", p, None, None, FALSE, 0, FALSE,
                                     NoFail, MkCtx(FALSE, 0, NoFail)))
    /\ UNCHANGED <<profiles, paternal_links, haplogroups, explored,
                   max_gen_up, max_gen_down>>

ResumeStarts == {"A", "a", "C"}

NextResume ==
    /\ Len(hist) < MaxResumeOps
    /\ \/ \E id \in ResumeStarts :
              PropagateFullTree(id, "R-Z", "FTDNA", FALSE, NoFail)
       \/ \E id \in ResumeStarts, label \in Labels :
              PropagateFullTree(id, label, "FTDNA", TRUE, NoFail)
       \/ \E p \in ForestIds \ {NewSon} : AddSon(p)

SpecResume == InitResume /\ [][NextResume]_vars

\* C12 as stated: after propagateFullTree(x, L, resume=false) has run to
\* completion, re-running with resume=true on the same data returns Stats
\* with skipped_explored > 0, for every lineage, one whose root has no sons
\* included.
C12_SkippedOnResume ==
    \A i \in 1..(Len(hist) - 1) :
        (IsFullRun(hist[i], FALSE) /\ Resumes(hist[i], hist[i + 1]))
        => hist[i + 1].stats.skipped_explored > 0

\* hist[i] is a complete resume=false run, then p gains the son NewSon in the
\* directory, then hist[i + 2] is a complete resume=true run from the same
\* start profile
RunAddResume(i, p) ==
    /\ i + 2 <= Len(hist)
    /\ IsFullRun(hist[i], FALSE)
    /\ hist[i + 1].op = "addSon" /\ hist[i + 1].id = p
    /\ IsFullRun(hist[i + 2], TRUE) /\ hist[i + 2].id = hist[i].id

\* the calls of run h that address profile q
CallsFor(h, q) == SelectSeq(h.calls, LAMBDA c : Canon(c[2]) = q)

LinksFrom(store, p) == SelectSeq(store.paternal_links, LAMBDA l : l[1] = p)

\* hist[i] is a complete resume=true run with label L, entered right after
\* the directory gained NewSon as a son of p, with (p, L) checkpointed
ResumeOverNewSon(i, p) ==
    /\ 1 < i /\ i <= Len(hist)
    /\ hist[i - 1].op = "addSon" /\ hist[i - 1].id = p
    /\ IsFullRun(hist[i], TRUE)
    /\ <<p, hist[i].label>> \in hist[i].pre.explored

\* C14: in a resume=true run, for a profile p with (p, L) already
\* checkpointed, a son that exists in the directory but has no stored
\* Paternal Link from p is not visited and receives no assignment through p:
\* the run makes no immediate-family request for the son, stores no link
\* from p to it and no assignment for it; the Store's links from p are the
\* ones it held before the run.
C14_FastPathDoesNotRediscover ==
    \A i \in 1..Len(hist), p \in ForestIds :
        ResumeOverNewSon(i, p)
        => /\ CallsFor(hist[i], NewSon) = <<>>
           /\ RowsOf(Post(i), NewSon) = {}
           /\ LinksFrom(Post(i), p) = LinksFrom(hist[i].pre, p)
           /\ ~InSeq(Post(i).paternal_links, <<p, NewSon>>)

\* p has linked sons, which the run assigns and recurses into, and the
\* directory reports NewSon among p's children
C14_Witness ==
    \E i \in 1..Len(hist), p \in ForestIds :
        /\ ResumeOverNewSon(i, p)
        /\ LinksFrom(hist[i].pre, p) # <<>>
        /\ hist[i].stats.skipped_explored >= 1
        /\ hist[i].stats.root_profile_id = p
        /\ InSeq(dir.children[p], NewSon)
        /\ RowsOf(Store, NewSon) = {}

\* C15 as stated: whenever an engine operation (assignLabel, or propagate
\* with its initiating assignment to the source profile) proposes label L
\* for a profile whose current assignment has a label different from L, a
\* Conflict for that profile is recorded in the run's Stats and the
\* profile's current assignment (most tested, then most recent) keeps its
\* previous label.
C15_DifferingLabelNeverAccepted ==
    \A i \in 1..Len(hist) :
        LET h == hist[i]
            cur == db_get_haplogroup(h.pre, h.id)
        IN (/\ h.op \in {"assignLabel", "propagate"}
            /\ cur # NoRow /\ cur.haplogroup # h.label)
           => /\ h.status = "ok"
              /\ \E k \in 1..Len(h.stats.conflicts) :
                     h.stats.conflicts[k].profile_id = h.id
              /\ db_get_haplogroup(Post(i), h.id).haplogroup = cur.haplogroup

(***************************************************************************)
(* Runs under failing Directory Client calls: any subset of the first      *)
(* MaxFailAt calls of an operation fails, or the client holds no valid     *)
(* credential and every call fails.                                        *)
(***************************************************************************)
\* no operation of the model makes more Directory Client calls than this
MaxCalls == 20

\* _make_request without a valid credential: raise Exception("Not
\* authenticated ...") or Exception("Token expired and refresh failed."),
\* at every request
NotAuthenticated == 1..MaxCalls

FailSubsets == (SUBSET (1..MaxFailAt)) \cup {NotAuthenticated}

FailStarts == {"A", "C"}

NextFail ==
    /\ Len(hist) < MaxOps
    /\ \/ \E id \in FailStarts, failAt \in FailSubsets :
              Propagate(id, "R-Z", "FTDNA", TRUE, TRUE, failAt)
       \/ \E id \in FailStarts, failAt \in FailSubsets :
              PropagateFullTree(id, "R-Z", "FTDNA", FALSE, failAt)
       \/ \E id \in FailStarts : Ascend(id, MaxGen, NotAuthenticated)
       \/ \E id \in FailStarts : Descend(id, MaxGen, NotAuthenticated)

SpecFail == InitWorlds /\ [][NextFail]_vars

\* the Directory Client calls of run h that failed
FailedCalls(h) == {k \in 1..Len(h.calls) : k \in h.failAt}

\* C16 as stated: for propagate and propagateFullTree, if any subset of the
\* Directory Client calls fails, the fetch of the source/start profile
\* itself included, the run still terminates normally and returns Stats.
C16_RemoteFailuresNeverAbort ==
    \A i \in 1..Len(hist) :
        LET h == hist[i]
        IN (h.op \in {"propagate", "fullTree"} /\ FailedCalls(h) # {})
           => h.status = "ok" /\ h.ret = h.stats

\* C17 as stated: when the Directory Client has no valid credential, a
\* traversal or propagation that needs a remote fetch aborts with the
\* authentication error visible to the caller, rather than treating the
\* profile as having no father/sons and completing with an empty or partial
\* result.
C17_AuthenticationFailureSurfaced ==
    \A i \in 1..Len(hist) :
        LET h == hist[i]
        IN (h.failAt = NotAuthenticated /\ h.calls # <<>>)
           => h.status \notin {"ok", "IntegrityError"}

\* every operation stays within MaxCalls requests
CallsWithinBound == \A i \in 1..Len(hist) : Len(hist[i].calls) < MaxCalls

\* C18 as stated: in every reachable Store state, every profile in the list
\* returned by resolveSons(p, forceRefresh) has gender male, whether the
\* list came from the cache or from the directory.
C18_ResolveSonsOnlyMales ==
    \A i \in 1..Len(hist) :
        LET h == hist[i]
        IN (h.op = "resolveSons" /\ h.status = "ok")
           => \A k \in 1..Len(h.ret) : dir.gender[IdOrGeniId(h.ret[k])] = "male"

\* C19: resolveSons(p, forceRefresh=true) always issues exactly one
\* immediate-family request to the Directory Client for p, whatever Paternal
\* Links from p the Store already holds, and returns the male children of
\* that response; resolveSons(p, forceRefresh=false) issues no request when
\* the Store holds at least one link from p and exactly one request when it
\* holds none.
C19_ForceRefreshBypassesCache ==
    \A i \in 1..Len(hist) :
        LET h == hist[i]
        IN (h.op = "resolveSons" /\ h.failAt = NoFail)
           => /\ h.status = "ok"
              /\ h.flag => /\ h.calls = <<<<"family", h.id>>>>
                           /\ h.ret = MapApi(ReportedSons(dir, h.id))
              /\ (~h.flag /\ LinksFrom(h.pre, h.id) # <<>>) => h.calls = <<>>
              /\ (~h.flag /\ LinksFrom(h.pre, h.id) = <<>>)
                     => h.calls = <<<<"family", h.id>>>>

\* a forced call on a profile whose cached links differ from what the
\* directory reports
C19_Witness ==
    \E i \in 1..Len(hist) :
        LET h == hist[i]
        IN /\ h.op = "resolveSons" /\ h.flag /\ h.failAt = NoFail
           /\ LinksFrom(h.pre, h.id) # <<>>
           /\ h.calls = <<<<"family", h.id>>>>
           /\ Len(h.ret) > Len(db_get_sons(h.pre, h.id))
           /\ h.ret = MapApi(ReportedSons(dir, h.id))

\* the profiles checkpointed under label L
ExploredUnder(store, L) == {e[1] : e \in {x \in store.explored : x[2] = L}}

\* hist[i] is a complete resume=false run under L1 and hist[i + 1] a complete
\* resume=true run from the same start under another label, no profile being
\* checkpointed under that label yet
ResumeUnderOtherLabel(i) ==
    /\ i + 1 <= Len(hist)
    /\ IsFullRun(hist[i], FALSE) /\ IsFullRun(hist[i + 1], TRUE)
    /\ hist[i + 1].id = hist[i].id /\ hist[i + 1].label # hist[i].label
    /\ ExploredUnder(hist[i + 1].pre, hist[i + 1].label) = {}

\* C20: after propagateFullTree(x, L1, resume=false) has completed, a run
\* propagateFullTree(x, L2, resume=true) with L2 # L1 does not take the
\* resume fast-path for any profile checkpointed only under L1: every
\* profile it visits is force-fetched from the directory and then
\* checkpointed under L2, the profiles the first run checkpointed among
\* them when no fetch fails, and skipped_explored stays 0.
C20_CheckpointsPerLabel ==
    \A i \in 1..Len(hist) :
        LET h1 == hist[i]
            h2 == hist[i + 1]
        IN ResumeUnderOtherLabel(i)
           => /\ h2.stats.skipped_explored = 0
              /\ h2.stats.root_profile_id \in ExploredUnder(Post(i + 1), h2.label)
              /\ \A p \in ExploredUnder(Post(i + 1), h2.label) :
                     InSeq(h2.calls, <<"family", p>>)
              /\ (h1.failAt = NoFail /\ h2.failAt = NoFail)
                     => (ExploredUnder(Post(i), h1.label)
                           \ ExploredUnder(h1.pre, h1.label))
                        \subseteq ExploredUnder(Post(i + 1), h2.label)
              /\ ExploredUnder(Post(i + 1), h1.label)
                     = ExploredUnder(h2.pre, h1.label)

C20_Witness ==
    /\ ResumeUnderOtherLabel(1)
    /\ hist[1].failAt = NoFail /\ hist[2].failAt = NoFail
    /\ Cardinality(ExploredUnder(hist[2].pre, hist[1].label)) >= 3
    /\ ExploredUnder(Store, hist[2].label) = ExploredUnder(Store, hist[1].label)
    /\ hist[2].stats.skipped_explored = 0
    /\ Len(hist[2].stats.conflicts) >= 3

\* C21 as stated: running propagateFullTree(x, L, resume=r) a second time
\* (for either value of r) after a completed run with the same x and L on an
\* unchanged directory inserts no Assignment row and no Paternal Link, adds
\* no checkpoint, and returns total_propagated = 0 with the same root
\* identifier; the Store is identical before and after the second run.
C21_RepeatedRunsConverge ==
    \A i \in 1..(Len(hist) - 1) :
        LET h1 == hist[i]
            h2 == hist[i + 1]
        IN (/\ h1.op = "fullTree" /\ ~h1.kill /\ h1.status = "ok"
            /\ h2.op = "fullTree" /\ ~h2.kill
            /\ h1.failAt = NoFail /\ h2.failAt = NoFail
            /\ h2.id = h1.id /\ h2.label = h1.label /\ h2.source = h1.source)
           => /\ h2.status = "ok"
              /\ Post(i + 1) = h2.pre
              /\ h2.stats.total_propagated = 0
              /\ h2.stats.root_profile_id = h1.stats.root_profile_id

(***************************************************************************)
(* The paternal_links table with its source and confidence columns:        *)
(* Database.add_paternal_link called with explicit arguments.  A row is    *)
(* <<father_id, child_id, source, confidence>>.                            *)
(***************************************************************************)
\* operations per behaviour of the link specification
MaxLinkOps == 4

LinkIds == {"A", "B"}
LinkAttrs == {<<"geni", "confirmed">>, <<"manual", "uncertain">>}

\* the stored rows for the pair (father_id, child_id)
LinkRows(store, father_id, child_id) ==
    SelectSeq(store.paternal_links,
              LAMBDA l : l[1] = father_id /\ l[2] = child_id)

\* INSERT OR REPLACE in place of INSERT OR IGNORE
db_add_paternal_link_replace(ctx, father_id, child_id, source, confidence) ==
    IF ctx.status # "ok" THEN ctx
    ELSE IF father_id \notin ctx.profiles \/ child_id \notin ctx.profiles
    THEN Raise(ctx, "IntegrityError")
    ELSE Commit(ctx, [ctx EXCEPT !.paternal_links =
             Append(SelectSeq(@, LAMBDA l : ~(l[1] = father_id /\ l[2] = child_id)),
                    <<father_id, child_id, source, confidence>>)])

\* INSERT OR IGNORE INTO paternal_links (father_id, child_id, source,
\* confidence, created_at), UNIQUE(father_id, child_id)
db_add_paternal_link(ctx, father_id, child_id, source, confidence) ==
    IF ctx.status # "ok" THEN ctx
    ELSE IF father_id \notin ctx.profiles \/ child_id \notin ctx.profiles
    THEN Raise(ctx, "IntegrityError")
    ELSE Commit(ctx, IF LinkRows(ctx, father_id, child_id) # <<>>
                     THEN ctx
                     ELSE [ctx EXCEPT !.paternal_links =
                              Append(@, <<father_id, child_id, source, confidence>>)])

AddPaternalLink(father_id, child_id, source, confidence) ==
    LET ctx == db_add_paternal_link(MkCtx(FALSE, 0, NoFail), father_id, child_id, source, confidence)
    IN Apply(OpRecord("addPaternalLink", father_id, child_id, source, FALSE,
                      confidence, FALSE, NoFail, ctx), ctx)

NextLinks ==
    /\ Len(hist) < MaxLinkOps
    /\ \/ \E id \in LinkIds : FetchProfile(id, NoFail)
       \/ \E f \in LinkIds, c \in LinkIds, a \in LinkAttrs :
              AddPaternalLink(f, c, a[1], a[2])

SpecLinks == InitScenario /\ [][NextLinks]_vars

\* C22: in every reachable Store state there is at most one stored link per
\* (father, child) pair; addPaternalLink on a pair that is already stored is
\* a no-op that leaves the existing link's source and confidence unchanged.
C22_LinkUniqueness ==
    /\ \A j, k \in 1..Len(paternal_links) :
           (paternal_links[j][1] = paternal_links[k][1]
            /\ paternal_links[j][2] = paternal_links[k][2]) => j = k
    /\ \A i \in 1..Len(hist) :
           LET h == hist[i]
           IN (h.op = "addPaternalLink" /\ LinkRows(h.pre, h.id, h.label) # <<>>)
              => /\ h.status = "ok"
                 /\ Post(i) = h.pre
                 /\ LinkRows(Post(i), h.id, h.label) = LinkRows(h.pre, h.id, h.label)

\* the pair is stored as (geni, confirmed) and offered again as (manual,
\* uncertain)
C22_Witness ==
    \E i \in 1..Len(hist) :
        LET h == hist[i]
        IN /\ h.op = "addPaternalLink" /\ h.status = "ok"
           /\ LinkRows(h.pre, h.id, h.label) = <<<<h.id, h.label, "geni", "confirmed">>>>
           /\ h.source = "manual"
           /\ LinkRows(Post(i), h.id, h.label) = <<<<h.id, h.label, "geni", "confirmed">>>>

(***************************************************************************)
(* Every engine operation, in any order, on one Store.                     *)
(***************************************************************************)
GrowStarts == {"A", "C"}

NextGrow ==
    /\ Len(hist) < MaxOps
    /\ \/ \E id \in GrowStarts : FetchProfile(id, NoFail)
       \/ \E id \in GrowStarts : ResolveFather(id, NoFail)
       \/ \E id \in GrowStarts, force \in BOOLEAN : ResolveSons(id, force, NoFail)
       \/ \E id \in GrowStarts : Ascend(id, MaxGen, NoFail)
       \/ \E id \in GrowStarts : Descend(id, MaxGen, NoFail)
       \/ \E id \in GrowStarts : BuildTree(id, NoFail)
       \/ \E id \in GrowStarts, label \in Labels : AssignLabel(id, label, "Geni")
       \/ \E id \in GrowStarts : Propagate(id, "R-Z", "FTDNA", TRUE, TRUE, NoFail)
       \/ \E id \in GrowStarts, resume \in BOOLEAN :
              PropagateFullTree(id, "I-M", "FTDNA", resume, NoFail)

SpecGrow == InitWorlds /\ [][NextGrow]_vars

IsPrefix(s, t) == Len(s) <= Len(t) /\ \A k \in 1..Len(s) : t[k] = s[k]

\* Store t holds everything Store s holds, every row unchanged
Grows(s, t) ==
    /\ s.profiles \subseteq t.profiles
    /\ IsPrefix(s.paternal_links, t.paternal_links)
    /\ IsPrefix(s.haplogroups, t.haplogroups)
    /\ s.explored \subseteq t.explored

\* C23: no engine operation (resolveFather, resolveSons, ascend, descend,
\* assignLabel, propagate, propagateFullTree, build tree) ever deletes a Profile,
\* Paternal Link, Assignment or Exploration Checkpoint, and none changes the
\* label, source, is_tested or confidence of an Assignment row once
\* inserted: across any sequence of operations the Store only grows.
C23_StoreOnlyGrows ==
    \A i \in 1..Len(hist) :
        /\ Grows(hist[i].pre, Post(i))
        /\ Grows(hist[i].pre, Store)

\* a run that meets assignments with another label, records Conflicts and
\* still adds rows
C23_Witness ==
    /\ Len(hist) = 2
    /\ hist[2].op \in {"propagate", "fullTree"}
    /\ hist[2].pre.haplogroups # <<>>
    /\ hist[2].stats.conflicts # <<>>
    /\ Len(haplogroups) > Len(hist[2].pre.haplogroups)
    /\ Len(paternal_links) > Len(hist[2].pre.paternal_links)
    /\ Grows(hist[2].pre, Store)

(***************************************************************************)
(* Cyclic data.  Directories whose parent relation is any function on      *)
(* CycleIds with A's father B (cycles of length one, two and three, and    *)
(* chains), and reciprocal links stored by add_paternal_link.              *)
(***************************************************************************)
MaxCycleOps == 3
CycleIds == {"A", "B", "C"}
Depths == {0, 1, MaxGen}

CycleFathers ==
    {f \in [CycleIds -> CycleIds \cup {None}] :
        /\ f["A"] = "B"
        /\ f["C"] # "B"}

CycleWorld(f) ==
    [gender |-> [i \in Ids |-> IF i = "E" THEN "female" ELSE "male"],
     parents |-> [i \in Ids |-> IF i \in CycleIds /\ f[i] # None
                                THEN <<f[i]>> ELSE <<>>],
     children |-> [i \in Ids |->
         SelectSeq(IdSeq, LAMBDA j : j \in CycleIds /\ f[j] = i)]]

CycleWorlds == {CycleWorld(f) : f \in CycleFathers}

InitCycle ==
    /\ dir \in CycleWorlds
    /\ max_gen_up = MaxGen
    /\ max_gen_down = MaxGen
    /\ InitStore

NextCycle ==
    /\ Len(hist) < MaxCycleOps
    /\ \/ \E m \in Depths : Ascend("A", m, NoFail)
       \/ \E m \in Depths : Descend("A", m, NoFail)
       \/ \E f \in LinkIds, c \in LinkIds : AddPaternalLink(f, c, "manual", "uncertain")

SpecCycle == InitCycle /\ [][NextCycle]_vars

\* the calls of resolver fn in one operation
ResolverCalls(h, fn) == SelectSeq(h.resolved, LAMBDA r : r[1] = fn)

\* the stored father relation has a cycle through id
RECURSIVE StoredAncestors(_, _, _)
StoredAncestors(store, id, n) ==
    IF n = 0 THEN {}
    ELSE LET f == db_get_father(store, id)
         IN IF f = NoProfile THEN {}
            ELSE {f.id} \cup StoredAncestors(store, f.id, n - 1)

OnStoredCycle(store, id) == id \in StoredAncestors(store, id, Cardinality(Ids))

\* C24: for every Store and directory content, father links that form a
\* cycle included, ascend(startId, M) terminates after at most M
\* resolveFather calls and returns at most M profiles.
C24_AscendBounded ==
    \A i \in 1..Len(hist) :
        hist[i].op = "ascend"
        => /\ hist[i].status = "ok"
           /\ Len(hist[i].ret) <= hist[i].m
           /\ Len(ResolverCalls(hist[i], "get_father")) <= hist[i].m
           /\ ResolverCalls(hist[i], "get_sons") = <<>>

\* an ascent from a profile on a stored cycle of father links, which runs
\* to the bound and returns the start profile among its own ancestors
C24_Witness ==
    \E i \in 1..Len(hist) :
        /\ hist[i].op = "ascend" /\ hist[i].m = MaxGen
        /\ OnStoredCycle(hist[i].pre, hist[i].id)
        /\ hist[i].status = "ok"
        /\ Len(hist[i].ret) = MaxGen
        /\ Len(ResolverCalls(hist[i], "get_father")) = MaxGen
        /\ \E k \in 1..Len(hist[i].ret) : IdOrGeniId(hist[i].ret[k]) = hist[i].id

(***************************************************************************)
(* The Directory Client's remote call (src/geni_client.py, _make_request). *)
(* In this specification dir is the client and the remote service: the     *)
(* token state, the status of the token endpoint, the statuses the API     *)
(* will answer with, in order, and the retry count of the call.            *)
(***************************************************************************)
MaxResponses == 3
Statuses == {200, 429, 500}

RECURSIVE Scripts(_)
Scripts(n) ==
    IF n = 0 THEN {<<>>}
    ELSE {Append(s, c) : s \in Scripts(n - 1), c \in Statuses}

RequestWorlds ==
    [access_token : BOOLEAN, expired : BOOLEAN, refresh_status : {200, 400},
     responses : Scripts(MaxResponses), retries : 0..MaxResponses]

NoRequest == [sent |-> <<>>, slept |-> <<>>, outcome |-> None, payload |-> 0,
              error |-> [kind |-> None, status |-> 0]]

\* Exception(message): the message's text and the status code in it
Error(kind, status) == [kind |-> kind, status |-> status]

\* requests.post to the token endpoint; True on 200
refresh_access_token(client, req) ==
    [req EXCEPT !.sent = Append(@, "POST"),
                !.outcome = IF client.refresh_status = 200 THEN "refreshed"
                            ELSE "refresh failed"]

\* for attempt in range(retries): the statuses in retried are waited on
RECURSIVE Attempts(_, _, _, _, _)
Attempts(responses, retries, attempt, req, retried) ==
    IF ~(attempt < retries)
    THEN [req EXCEPT !.outcome = "raise", !.error = Error("API request failed after retries", 429)]
    ELSE LET status == responses[attempt + 1]
             got == [req EXCEPT !.sent = Append(@, "GET")]
         IN IF status = 200
            THEN [got EXCEPT !.outcome = "return", !.payload = attempt + 1]
            ELSE IF status \in retried
            THEN Attempts(responses, retries, attempt + 1,
                          [got EXCEPT !.slept = Append(@, (attempt + 1) * 5)],
                          retried)
            ELSE [got EXCEPT !.outcome = "raise",
                             !.error = Error("API request failed", status)]

RequestWith(client, retries, retried) ==
    IF ~client.access_token
    THEN [NoRequest EXCEPT !.outcome = "raise", !.error = Error("Not authenticated", 0)]
    ELSE LET Refreshed(r1) ==
                 IF r1.outcome = "refresh failed"
                 THEN [r1 EXCEPT !.outcome = "raise", !.error = Error("Token expired and refresh failed", 0)]
                 ELSE Attempts(client.responses, retries, 0, r1, retried)
         IN Refreshed(IF client.expired THEN refresh_access_token(client, NoRequest)
                      ELSE NoRequest)

\* _make_request that waits and retries on every status but 200
make_request_retry_any(client, retries) == RequestWith(client, retries, Statuses)

make_request(client, retries) == RequestWith(client, retries, {429})

InitRequest ==
    /\ dir \in RequestWorlds
    /\ max_gen_up = MaxGen
    /\ max_gen_down = MaxGen
    /\ InitStore

MakeRequest ==
    /\ hist = <<>>
    /\ hist' = <<[op |-> "makeRequest", retries |-> dir.retries,
                  req |-> make_request(dir, dir.retries)]>>
    /\ UNCHANGED <<dir, profiles, paternal_links, haplogroups, explored,
                   max_gen_up, max_gen_down>>

NextRequest == MakeRequest

SpecRequest == InitRequest /\ [][NextRequest]_vars

Gets(req) == SelectSeq(req.sent, LAMBDA s : s = "GET")
Posts(req) == SelectSeq(req.sent, LAMBDA s : s = "POST")

\* the answers the API gave to the requests of the call
Answers(req) == SubSeq(dir.responses, 1, Len(Gets(req)))

\* what the call does with the answers it gets, whatever it sent before them
RetryRule(h) ==
    LET req == h.req  ans == Answers(h.req)  n == Len(Answers(h.req))
    IN /\ req.outcome \in {"return", "raise"}
       /\ \A k \in 1..(n - 1) : ans[k] = 429
       /\ req.outcome = "return"
          <=> (n > 0 /\ ans[n] = 200)
       /\ req.outcome = "return" => req.payload = n
       /\ (n > 0 /\ ans[n] \notin {200, 429})
          => (req.outcome = "raise"
              /\ req.error = Error("API request failed", ans[n]))
       /\ (n > 0 /\ ans[n] = 429)
          => (n = h.retries /\ req.outcome = "raise"
              /\ req.error = Error("API request failed after retries", 429))
       /\ ~dir.access_token
          => (req.sent = <<>> /\ req.outcome = "raise"
              /\ req.error = Error("Not authenticated", 0))

\* C25 as stated: one remote call with retry count R sends at most R HTTP
\* requests; it returns the payload of the first 200 response, raises at
\* once and without retry on the first response that is neither 200 nor
\* 429, raises after exactly R consecutive 429 responses, and sends no
\* request at all when there is no access token.
C25_BoundedRetry ==
    \A i \in 1..Len(hist) :
        /\ Len(hist[i].req.sent) <= hist[i].retries
        /\ RetryRule(hist[i])

\* C25, amended: the call sends at most R requests to the API, after one
\* request to the token endpoint when the access token has expired (at most
\* R + 1 HTTP requests in all) and none to the API when that refresh fails;
\* it returns the payload of the first 200 response, raises at once on the
\* first response that is neither 200 nor 429, raises after exactly R
\* consecutive 429 responses, and sends no request when there is no token.
C25_BoundedRetryAfterRefresh ==
    \A i \in 1..Len(hist) :
        LET req == hist[i].req
        IN /\ Len(Gets(req)) <= hist[i].retries
           /\ Len(Posts(req)) = IF dir.access_token /\ dir.expired THEN 1 ELSE 0
           /\ Len(req.sent) = Len(Posts(req)) + Len(Gets(req))
           /\ (Posts(req) # <<>> => req.sent[1] = "POST")
           /\ (dir.access_token /\ dir.expired /\ dir.refresh_status # 200)
              => (Gets(req) = <<>> /\ req.outcome = "raise"
                  /\ req.error = Error("Token expired and refresh failed", 0))
           /\ RetryRule(hist[i])

\* a call with an expired token that refreshes it, is throttled R times and
\* raises: R + 1 HTTP requests
C25_Witness ==
    /\ hist # <<>>
    /\ dir.access_token /\ dir.expired /\ dir.refresh_status = 200
    /\ hist[1].retries = MaxResponses
    /\ \A k \in 1..MaxResponses : dir.responses[k] = 429
    /\ hist[1].req.outcome = "raise"
    /\ Len(hist[1].req.sent) = MaxResponses + 1
    /\ hist[1].req.slept = [k \in 1..MaxResponses |-> 5 * k]

(***************************************************************************)
(* The order and the depth of a descent.                                   *)
(***************************************************************************)
\* the get_sons calls of one operation that returned, in order
SonsReturned(h) ==
    SelectSeq(h.resolved, LAMBDA r : r[1] = "returned" /\ r[2] = "get_sons")

RECURSIVE IdsOf(_)
IdsOf(ps) == IF ps = <<>> THEN <<>> ELSE <<IdOrGeniId(Head(ps))>> \o IdsOf(Tail(ps))

\* the identifiers of the entries whose path is parent_path plus one son
RECURSIVE EntriesUnder(_, _)
EntriesUnder(out, parent_path) ==
    IF out = <<>> THEN <<>>
    ELSE (IF SubSeq(Head(out).path, 1, Len(Head(out).path) - 1) = parent_path
          THEN <<IdOrGeniId(Head(out).profile)>> ELSE <<>>)
         \o EntriesUnder(Tail(out), parent_path)

\* the entries descend goes on from: those above the depth limit
Expanded(h) == SelectSeq(h.ret, LAMBDA e : e.generation < h.m)

\* the c-th get_sons call of a descent is for the start profile (c = 1) or
\* for the (c - 1)-th expanded entry; the path of the profile it is for
CallPath(h, c) == IF c = 1 THEN <<h.id>> ELSE Expanded(h)[c - 1].path

\* C26: the list descend returns is in depth-first pre-order: every profile
\* appears before all of its own descendants, the entries of one son's
\* subtree are contiguous and come before the entry of that son's next
\* sibling, and siblings appear in the order resolveSons returned them.
C26_DescendPreOrder ==
    \A i \in 1..Len(hist) :
        (hist[i].op = "descend" /\ hist[i].status = "ok")
        => LET out == hist[i].ret
               Parent(k) == SubSeq(out[k].path, 1, Len(out[k].path) - 1)
           IN /\ \A k \in 1..Len(out) :
                     \/ Parent(k) = <<hist[i].id>>
                     \/ \E j \in 1..(k - 1) : out[j].path = Parent(k)
              /\ \A k \in 1..Len(out), j \in 1..Len(out) :
                     (k # j /\ IsPrefix(out[k].path, out[j].path))
                     => /\ k < j
                        /\ \A m \in k..j : IsPrefix(out[k].path, out[m].path)
              /\ \A k \in 1..Len(out), j \in 1..Len(out) :
                     out[k].path = out[j].path => k = j
              /\ Len(SonsReturned(hist[i]))
                     = IF hist[i].m = 0 THEN 0 ELSE 1 + Len(Expanded(hist[i]))
              /\ \A c \in 1..Len(SonsReturned(hist[i])) :
                     LET call == SonsReturned(hist[i])[c]
                         path == CallPath(hist[i], c)
                     IN /\ call[3] = path[Len(path)]
                        /\ EntriesUnder(out, path) = IdsOf(call[4])

\* a descent over a tree whose first son has a son of his own and a younger
\* brother: the grandson is listed between the two brothers
C26_Witness ==
    \E i \in 1..Len(hist) :
        /\ hist[i].op = "descend" /\ hist[i].status = "ok"
        /\ Len(hist[i].ret) >= 3
        /\ hist[i].ret[1].generation = 1
        /\ hist[i].ret[2].generation = 2
        /\ hist[i].ret[3].generation = 1
        /\ IsPrefix(hist[i].ret[1].path, hist[i].ret[2].path)


\* C27: for every Store and directory content, father -> son links that
\* form a cycle included, descend(startId, M) terminates, every returned
\* entry has 1 <= generation <= M, resolveSons is never called at a
\* generation greater than M (the call for the start is at generation 1,
\* the call for an entry of generation g at g + 1), and descend(startId, 0)
\* returns the empty list without calling resolveSons.
C27_DescendDepthCapped ==
    \A i \in 1..Len(hist) :
        hist[i].op = "descend"
        => LET h == hist[i]
               calls == ResolverCalls(hist[i], "get_sons")
           IN /\ h.status = "ok"
              /\ \A k \in 1..Len(h.ret) :
                     /\ 1 <= h.ret[k].generation
                     /\ h.ret[k].generation <= h.m
                     /\ Len(h.ret[k].path) = h.ret[k].generation + 1
              /\ Len(calls) = IF h.m = 0 THEN 0 ELSE 1 + Len(Expanded(h))
              /\ \A c \in 1..Len(calls) :
                     /\ calls[c][2] = CallPath(h, c)[Len(CallPath(h, c))]
                     /\ Len(CallPath(h, c)) <= h.m
              /\ ResolverCalls(h, "get_father") = <<>>
              /\ h.m = 0 => (h.ret = <<>> /\ h.resolved = <<>> /\ h.calls = <<>>)

\* a descent from a profile that is stored as its own grandson: it runs to
\* the depth limit and lists the start profile among its own descendants
C27_Witness ==
    \E i \in 1..Len(hist) :
        /\ hist[i].op = "descend" /\ hist[i].m = MaxGen
        /\ OnStoredCycle(hist[i].pre, hist[i].id)
        /\ hist[i].status = "ok"
        /\ \E k \in 1..Len(hist[i].ret) :
               /\ IdOrGeniId(hist[i].ret[k].profile) = hist[i].id
               /\ hist[i].ret[k].generation = 2
        /\ \E k \in 1..Len(hist[i].ret) : hist[i].ret[k].generation = MaxGen
        /\ Len(ResolverCalls(hist[i], "get_sons")) >= MaxGen


(***************************************************************************)
(* The profiles step 3 of a full-tree run visits.                          *)
(***************************************************************************)
Visits(h) == SelectSeq(h.resolved, LAMBDA r : r[1] = "visit")

RECURSIVE MaxGeneration(_)
MaxGeneration(visits) ==
    IF visits = <<>> THEN 0
    ELSE LET rest == MaxGeneration(Tail(visits))
         IN IF Head(visits)[3] > rest THEN Head(visits)[3] ELSE rest

\* stats["generations"] as the run goes: never smaller than before, never
\* above the configured depth
GenerationsMonotone(h) ==
    /\ \A k \in 1..Len(Visits(h)) :
           /\ Visits(h)[k][4] <= max_gen_down
           /\ k > 1 => Visits(h)[k - 1][4] <= Visits(h)[k][4]
           /\ Visits(h)[k][4] <= h.stats.generations
    /\ h.stats.generations <= max_gen_down

\* C28 as stated: at the end of propagateFullTree, in resume=false and in
\* resume=true runs, the reported generations value equals the largest
\* generation g at which step 3 visited a profile (0 only if nothing was
\* visited); during the run it never decreases and never exceeds the
\* configured maximum descent depth.
C28_GenerationsIsDeepestVisit ==
    \A i \in 1..Len(hist) :
        (hist[i].op = "fullTree" /\ ~hist[i].kill /\ hist[i].status = "ok")
        => /\ hist[i].stats.generations = MaxGeneration(Visits(hist[i]))
           /\ GenerationsMonotone(hist[i])

\* what holds of the reported value: it is the largest generation at which
\* step 3 visited a profile it fetched (a profile without a checkpoint, or
\* any profile when resume=false)
GenerationsIsDeepestFetch ==
    \A i \in 1..Len(hist) :
        (hist[i].op = "fullTree" /\ ~hist[i].kill /\ hist[i].status = "ok")
        => /\ hist[i].stats.generations
                  = MaxGeneration(SelectSeq(Visits(hist[i]),
                        LAMBDA v : ~(hist[i].flag /\ <<v[2], hist[i].label>>
                                                       \in hist[i].pre.explored)))
           /\ ~hist[i].flag
              => hist[i].stats.generations = MaxGeneration(Visits(hist[i]))
           /\ GenerationsMonotone(hist[i])


\* the directory calls made between the k-th visit of a run and the next
CallsOfVisit(h, k) ==
    SubSeq(h.calls, Visits(h)[k][5] + 1,
           IF k < Len(Visits(h)) THEN Visits(h)[k + 1][5] ELSE Len(h.calls))

\* C29: in a propagateFullTree run with resume=false, every profile visited
\* in step 3 within the depth limit is force-fetched from the directory
\* exactly once per visit, whichever Exploration Checkpoints exist, and
\* skipped_explored is 0 at the end of the run.
C29_CheckpointsIgnoredWithoutResume ==
    \A i \in 1..Len(hist) :
        (hist[i].op = "fullTree" /\ ~hist[i].flag /\ ~hist[i].kill
            /\ hist[i].status = "ok")
        => /\ hist[i].stats.skipped_explored = 0
           /\ Len(ResolverCalls(hist[i], "get_sons")) = Len(Visits(hist[i]))
           /\ \A k \in 1..Len(Visits(hist[i])) :
                  /\ Visits(hist[i])[k][3] <= max_gen_down
                  /\ CallsOfVisit(hist[i], k) = <<<<"family", Visits(hist[i])[k][2]>>>>

\* a resume=false run over profiles that all hold a checkpoint under its
\* label, which fetches each of them again
C29_Witness ==
    \E i \in 1..Len(hist) :
        /\ hist[i].op = "fullTree" /\ ~hist[i].flag /\ hist[i].status = "ok"
        /\ Len(Visits(hist[i])) >= 2
        /\ \A k \in 1..Len(Visits(hist[i])) :
               /\ <<Visits(hist[i])[k][2], hist[i].label>> \in hist[i].pre.explored
               /\ CallsOfVisit(hist[i], k) = <<<<"family", Visits(hist[i])[k][2]>>>>


(***************************************************************************)
(* propagate in every combination of directions, over Stores that earlier  *)
(* runs have labelled.                                                     *)
(***************************************************************************)
PropagateStarts == {"A", "C"}

NextPropagate ==
    /\ Len(hist) < MaxOps
    /\ \E id \in PropagateStarts, label \in Labels, up \in BOOLEAN, down \in BOOLEAN, failAt \in OneFail :
           Propagate(id, label, "FTDNA", up, down, failAt)

SpecPropagate == InitWorlds /\ [][NextPropagate]_vars

\* the profiles the ascent of run h returned, in order
RECURSIVE FathersReturned(_)
FathersReturned(log) ==
    IF log = <<>> THEN <<>>
    ELSE (IF Head(log)[1] = "returned" /\ Head(log)[2] = "get_father"
             /\ Head(log)[4] # NoProfile
          THEN <<IdOrGeniId(Head(log)[4])>> ELSE <<>>)
         \o FathersReturned(Tail(log))

\* the profiles the descent of run h returned, in order
RECURSIVE AllSonsReturned(_)
AllSonsReturned(log) ==
    IF log = <<>> THEN <<>>
    ELSE (IF Head(log)[1] = "returned" /\ Head(log)[2] = "get_sons"
          THEN IdsOf(Head(log)[4]) ELSE <<>>)
         \o AllSonsReturned(Tail(log))

\* the visited profiles that hold no assignment when they are visited
RECURSIVE FirstUnlabelled(_, _)
FirstUnlabelled(visited, labelled) ==
    IF visited = <<>> THEN <<>>
    ELSE IF Head(visited) \in labelled
    THEN FirstUnlabelled(Tail(visited), labelled)
    ELSE <<Head(visited)>>
         \o FirstUnlabelled(Tail(visited), labelled \cup {Head(visited)})

LabelledIn(store) == {store.haplogroups[k].profile_id : k \in 1..Len(store.haplogroups)}

SeqToSet(s) == {s[k] : k \in 1..Len(s)}

UpInserts(h) == FirstUnlabelled(FathersReturned(h.resolved), LabelledIn(h.pre) \cup {h.id})

DownInserts(h) ==
    FirstUnlabelled(AllSonsReturned(h.resolved),
                    LabelledIn(h.pre) \cup {h.id} \cup SeqToSet(UpInserts(h)))

TestedRow(h) ==
    [profile_id |-> h.id, haplogroup |-> h.label, source |-> h.source,
     is_tested |-> TRUE, is_propagated |-> FALSE, propagated_from |-> None,
     confidence |-> "confirmed"]

PropagatedRow(h, id) ==
    [profile_id |-> id, haplogroup |-> h.label,
     source |-> PropagatedSource(h.source), is_tested |-> FALSE,
     is_propagated |-> TRUE, propagated_from |-> h.id,
     confidence |-> "propagated"]

\* C30: propagate(sourceId, L, source, up, down) first inserts one
\* Assignment for sourceId with is_tested = true and confidence =
\* confirmed, then for each enabled direction visits every profile the
\* traversal returns; each visited profile with no prior assignment receives
\* exactly one new Assignment with label L, source "propagated_<source>",
\* is_tested = false, confidence = propagated and propagated_from =
\* sourceId; ancestors_propagated and descendants_propagated are the numbers
\* of these insertions per direction, and a disabled direction performs no
\* traversal and leaves its counter at 0.
C30_PropagateBookkeeping ==
    \A i \in 1..Len(hist) :
        (hist[i].op = "propagate" /\ hist[i].status = "ok")
        => LET h == hist[i]
               up == UpInserts(hist[i])
               down == DownInserts(hist[i])
           IN /\ Post(i).haplogroups
                    = h.pre.haplogroups \o <<TestedRow(h)>>
                      \o [k \in 1..Len(up) |-> PropagatedRow(h, up[k])]
                      \o [k \in 1..Len(down) |-> PropagatedRow(h, down[k])]
              /\ h.stats.ancestors_propagated = Len(up)
              /\ h.stats.descendants_propagated = Len(down)
              /\ ~h.flag => /\ ResolverCalls(h, "get_father") = <<>>
                            /\ h.stats.ancestors_propagated = 0
              /\ h.m = 0 => /\ ResolverCalls(h, "get_sons") = <<>>
                            /\ h.stats.descendants_propagated = 0
              /\ h.flag => ResolverCalls(h, "get_father") # <<>>
              /\ h.m = 1 => ResolverCalls(h, "get_sons") # <<>>

\* propagate leaves by an exception only when the fetch of the source
\* profile failed and the Store does not hold it; it then inserts nothing
PropagateRaisesOnlyUnfetched ==
    \A i \in 1..Len(hist) :
        (hist[i].op = "propagate" /\ hist[i].status # "ok")
        => /\ 1 \in hist[i].failAt
           /\ hist[i].id \notin Post(i).profiles
           /\ Post(i).haplogroups = hist[i].pre.haplogroups

\* a run in both directions that labels an ancestor and a descendant and
\* passes over a visited profile that holds an assignment
C30_Witness ==
    \E i \in 1..Len(hist) :
        /\ hist[i].op = "propagate" /\ hist[i].status = "ok"
        /\ hist[i].flag /\ hist[i].m = 1
        /\ hist[i].stats.ancestors_propagated >= 1
        /\ hist[i].stats.descendants_propagated >= 1
        /\ \E q \in SeqToSet(AllSonsReturned(hist[i].resolved)) :
               q \in LabelledIn(hist[i].pre)
        /\ Len(Post(i).haplogroups) = Len(hist[i].pre.haplogroups) + 1
               + hist[i].stats.ancestors_propagated
               + hist[i].stats.descendants_propagated


(***************************************************************************)
(* Resolvers called with canonical and with non-canonical identifiers.     *)
(***************************************************************************)
CanonStarts == {"A", "a", "B", "C", "E"}

NextCanon ==
    /\ Len(hist) < MaxOps
    /\ \/ \E id \in CanonStarts, failAt \in OneFail : ResolveFather(id, failAt)
       \/ \E id \in CanonStarts, force \in BOOLEAN : ResolveSons(id, force, NoFail)

SpecCanon == InitWorlds /\ [][NextCanon]_vars

\* the male parents the directory reports for the profile the caller names
MaleParents(id) ==
    SelectSeq(dir.parents[Canon(id)], LAMBDA q : dir.gender[q] = "male")

\* resolveFather call h missed the cache
FatherMiss(h) ==
    /\ h.op = "resolveFather"
    /\ db_get_father(h.pre, h.id) = NoProfile

\* what a miss requests and returns, and the link it is to store
MissAnswer(i) ==
    LET h == hist[i]
    IN /\ h.status = "ok"
       /\ h.calls = <<<<"family", h.id>>>>
       /\ (1 \in h.failAt \/ MaleParents(h.id) = <<>>)
          => /\ h.ret = NoProfile
             /\ Post(i).paternal_links = h.pre.paternal_links
       /\ (1 \notin h.failAt /\ MaleParents(h.id) # <<>>)
          => h.ret = ApiProfile(Head(MaleParents(h.id)))

C36_FatherCachedForCallerId ==
    \A i \in 1..(Len(hist) - 1) :
        (/\ hist[i].op = "resolveFather" /\ hist[i].status = "ok"
         /\ hist[i].calls # <<>> /\ hist[i].ret # NoProfile
         /\ hist[i + 1].op = "resolveFather" /\ hist[i + 1].id = hist[i].id)
        => /\ hist[i + 1].status = "ok"
           /\ hist[i + 1].calls = <<>>
           /\ hist[i + 1].ret.id = hist[i].ret.id

\* what holds: the father is cached for the canonical identifier; a second
\* call under a non-canonical identifier asks the directory again
FatherCachedForCanonicalId ==
    \A i \in 1..(Len(hist) - 1) :
        (/\ hist[i].op = "resolveFather" /\ hist[i].status = "ok"
         /\ hist[i].calls # <<>> /\ hist[i].ret # NoProfile
         /\ hist[i + 1].op = "resolveFather" /\ hist[i + 1].id = hist[i].id)
        => /\ hist[i + 1].status = "ok"
           /\ hist[i + 1].id = Canon(hist[i].id)
              => /\ hist[i + 1].calls = <<>>
                 /\ hist[i + 1].ret.id = hist[i].ret.id
           /\ hist[i + 1].id # Canon(hist[i].id)
              => hist[i + 1].calls = <<<<"family", hist[i].id>>>>


(***************************************************************************)
(* Resolver calls in sequences long enough to store two fathers for one    *)
(* child and then ask for the child's father.                              *)
(***************************************************************************)
MaxFatherOps == 3

NextFathers ==
    /\ Len(hist) < MaxFatherOps
    /\ \/ \E id \in Ids : ResolveFather(id, NoFail)
       \/ \E id \in Ids, force \in BOOLEAN : ResolveSons(id, force, NoFail)

SpecFathers == InitWorlds /\ [][NextFathers]_vars

\* the profiles the Store links to child as fathers
FathersOf(store, child) ==
    {store.paternal_links[k][1] :
        k \in {n \in 1..Len(store.paternal_links) : store.paternal_links[n][2] = child}}

\* C32: the engine does not enforce a single father per child: once the
\* Store holds two Paternal Links with different fathers and the same child
\* (stored, for example, by force-refreshed resolveSons on two profiles
\* whose directory responses both list the child), both links stay and
\* resolveFather(child) answers from the cache with one of the two fathers
\* without contacting the directory.
C32_SeveralFathersAnsweredFromCache ==
    \A i \in 1..Len(hist) :
        Cardinality(FathersOf(hist[i].pre, hist[i].id)) >= 2
        => /\ FathersOf(hist[i].pre, hist[i].id) \subseteq FathersOf(Post(i), hist[i].id)
           /\ hist[i].op = "resolveFather"
              => /\ hist[i].status = "ok"
                 /\ hist[i].calls = <<>>
                 /\ hist[i].ret.shape = "row"
                 /\ hist[i].ret.id \in FathersOf(hist[i].pre, hist[i].id)
                 /\ Post(i) = hist[i].pre

\* force-refreshed resolveSons on two different profiles, both listing the
\* same male child, then resolveFather of that child
C32_Witness ==
    /\ Len(hist) = 3
    /\ hist[1].op = "resolveSons" /\ hist[1].flag
    /\ hist[2].op = "resolveSons" /\ hist[2].flag
    /\ hist[1].id # hist[2].id
    /\ hist[3].op = "resolveFather"
    /\ FathersOf(hist[1].pre, hist[3].id) = {}
    /\ FathersOf(hist[3].pre, hist[3].id) = {hist[1].id, hist[2].id}
    /\ hist[3].status = "ok" /\ hist[3].calls = <<>>
    /\ hist[3].ret.id \in {hist[1].id, hist[2].id}
    /\ dir.gender[hist[3].id] = "male"


\* the calls of _assign_haplogroup a run made, in order
Assigns(h) == SelectSeq(h.resolved, LAMBDA r : r[1] = "assign")

\* the Assignment rows a Store holds for a profile, as positions
RowsAt(store, p) == {k \in 1..Len(store.haplogroups) : store.haplogroups[k].profile_id = p}

\* C33: first label wins across full-tree runs: after any sequence of
\* propagateFullTree runs (any start, label and resume flag, runs possibly
\* interrupted) from a Store without assignments, every profile has at most
\* one Assignment row; a run leaves the rows it found untouched, adds rows
\* only with its own label and only for profiles it called assignLabel on
\* while they had none, labels every such profile when it completes, and
\* for a profile it finds with a different label only adds a Conflict entry
\* to its own Stats.
C33_FirstLabelWins ==
    /\ \A p \in Ids : Cardinality(RowsAt(Store, p)) <= 1
    /\ \A i \in 1..Len(hist) :
           LET h == hist[i]
               post == Post(i)
           IN h.op = "fullTree"
              => /\ IsPrefix(h.pre.haplogroups, post.haplogroups)
                 /\ \A k \in (Len(h.pre.haplogroups) + 1)..Len(post.haplogroups) :
                        /\ post.haplogroups[k].haplogroup = h.label
                        /\ <<"assign", post.haplogroups[k].profile_id, h.label, None>>
                               \in SeqToSet(Assigns(h))
                 /\ \A k \in 1..Len(Assigns(h)) :
                        LET a == Assigns(h)[k]
                        IN /\ a[3] = h.label
                           /\ RowsAt(h.pre, a[2]) # {}
                              => /\ a[4] = db_get_haplogroup(h.pre, a[2]).haplogroup
                                 /\ db_get_haplogroup(post, a[2]) = db_get_haplogroup(h.pre, a[2])
                           /\ (RowsAt(h.pre, a[2]) = {} /\ h.status = "ok")
                              => /\ RowsAt(post, a[2]) # {}
                                 /\ db_get_haplogroup(post, a[2]).haplogroup = h.label
                 /\ h.stats.conflicts =
                        [k \in 1..Len(SelectSeq(Assigns(h), LAMBDA a : a[4] \notin {None, h.label})) |->
                            [profile_id |-> SelectSeq(Assigns(h), LAMBDA a : a[4] \notin {None, h.label})[k][2],
                             existing |-> SelectSeq(Assigns(h), LAMBDA a : a[4] \notin {None, h.label})[k][4],
                             new |-> h.label]]

\* an interrupted run labels part of a tree R-Z; a later run with label I-M
\* meets those profiles, records Conflicts and labels the rest I-M
C33_Witness ==
    /\ Len(hist) = 2
    /\ hist[1].op = "fullTree" /\ hist[1].kill /\ hist[1].label = "R-Z"
    /\ hist[2].op = "fullTree" /\ hist[2].label = "I-M" /\ hist[2].status = "ok"
    /\ hist[2].pre.haplogroups # <<>>
    /\ hist[2].stats.conflicts # <<>>
    /\ hist[2].stats.total_propagated > 0
    /\ \A p \in Ids : Cardinality(RowsAt(Store, p)) <= 1
    /\ \E p \in Ids : RowsAt(Store, p) # {} /\ db_get_haplogroup(Store, p).haplogroup = "R-Z"
    /\ \E p \in Ids : RowsAt(Store, p) # {} /\ db_get_haplogroup(Store, p).haplogroup = "I-M"


(***************************************************************************)
(* Runs that meet labels of another run: propagate with label I-M and      *)
(* full-tree runs with label R-Z, fresh or resumed, with one Directory     *)
(* Client call failing or none.                                            *)
(***************************************************************************)
MaxConflictOps == 3

ConflictStarts == {"A", "C"}

NextConflict ==
    /\ Len(hist) < MaxConflictOps
    /\ \/ \E id \in ConflictStarts, up \in BOOLEAN, down \in BOOLEAN :
              Propagate(id, "I-M", "FTDNA", up, down, NoFail)
       \/ \E id \in ConflictStarts, resume \in BOOLEAN, failAt \in FailSets :
              PropagateFullTree(id, "R-Z", "FTDNA", resume, failAt)

SpecConflict == InitFull /\ [][NextConflict]_vars

\* the sons run h recorded a Conflict for while descending (the root of a
\* full-tree run is no son)
ConflictingSons(h) ==
    {h.stats.conflicts[k].profile_id :
        k \in {n \in 1..Len(h.stats.conflicts) :
                  IF h.op = "propagate" THEN h.stats.conflicts[n].direction = "down"
                  ELSE h.stats.conflicts[n].profile_id # h.stats.root_profile_id}}

\* run h went on from profile s: propagate_to_all_sons passed its depth
\* check for s, or traverse asked for the sons of s
Recursed(h, s) ==
    IF h.op = "fullTree" THEN \E k \in 1..Len(Visits(h)) : Visits(h)[k][2] = s
    ELSE InSeq(ResolverCalls(h, "get_sons"), <<"get_sons", s>>)

\* the sons of s the run went through: those get_sons returned for s, or on
\* the fast path (no get_sons call for s) those the Store links to s
SonsResolved(h, post, s) ==
    IF \E k \in 1..Len(SonsReturned(h)) : SonsReturned(h)[k][3] = s
    THEN UNION {SeqToSet(IdsOf(SonsReturned(h)[k][4])) :
                   k \in {n \in 1..Len(SonsReturned(h)) : SonsReturned(h)[n][3] = s}}
    ELSE SeqToSet(IdsOf(db_get_sons(post, s)))

\* the generation of the last profile propagate_to_all_sons went on from
\* before entry n of the log of run h (0 when there is none)
LastVisitGeneration(h, n) ==
    LET before == {k \in 1..(n - 1) : h.resolved[k][1] = "visit"}
    IN IF before = {} THEN 0
       ELSE h.resolved[CHOOSE k \in before : \A j \in before : j <= k][3]

\* the generation at which run h went on from s, and the generations left
\* below it for the sons to be labelled in
DepthsLeft(h, s) ==
    IF h.op = "fullTree"
    THEN {max_gen_down - Visits(h)[k][3] + 1 :
             k \in {n \in 1..Len(Visits(h)) : Visits(h)[n][2] = s}}
    ELSE {max_gen_down - h.stats.conflicts[k].generation :
             k \in {n \in 1..Len(h.stats.conflicts) :
                       /\ h.stats.conflicts[n].profile_id = s
                       /\ h.stats.conflicts[n].direction = "down"}}

IsDescent(h) == h.op = "fullTree" \/ (h.op = "propagate" /\ h.m = 1)

\* C34 as stated: a conflict does not prune the subtree: in
\* propagateFullTree (fresh path and resume fast-path) and in propagate's
\* descent, every unlabelled male descendant the directory has below a
\* conflicting profile, within the depth limit, receives the new label.
C34_ConflictDoesNotPrune ==
    \A i \in 1..Len(hist) :
        LET h == hist[i]
        IN (IsDescent(h) /\ h.status = "ok")
           => \A s \in ConflictingSons(h) : \A d \in DepthsLeft(h, s) :
                  \A q \in MaleDescendants(dir, s, IF d > 0 THEN d ELSE 0) :
                      RowsAt(h.pre, q) = {}
                      => /\ RowsAt(Post(i), q) # {}
                         /\ db_get_haplogroup(Post(i), q).haplogroup = h.label

\* C34, amended: a conflict does not prune the subtree: a full-tree run
\* goes on from every son it found with a differing label unless the son is
\* at the depth limit, propagate's descent asks for the sons of every
\* conflicting profile above its depth limit, and every son the run
\* resolves for a conflicting profile it went on from (returned by
\* resolveSons, or linked in the Store on the fast path) holds a label
\* afterwards: the new one if it had none.
C34_ConflictStillRecursed ==
    \A i \in 1..Len(hist) :
        LET h == hist[i]
        IN (IsDescent(h) /\ h.status = "ok")
           => /\ h.op = "fullTree"
                 => \A n \in 1..Len(h.resolved) :
                        (/\ h.resolved[n][1] = "assign"
                         /\ h.resolved[n][4] \notin {None, h.label})
                        => \/ /\ n < Len(h.resolved)
                              /\ h.resolved[n + 1][1] = "visit"
                              /\ h.resolved[n + 1][2] = h.resolved[n][2]
                           \/ LastVisitGeneration(h, n) = max_gen_down
              /\ h.op = "propagate"
                 => \A k \in 1..Len(h.stats.conflicts) :
                        (/\ h.stats.conflicts[k].direction = "down"
                         /\ h.stats.conflicts[k].generation < max_gen_down)
                        => Recursed(h, h.stats.conflicts[k].profile_id)
              /\ \A s \in ConflictingSons(h) :
                     Recursed(h, s)
                     => \A q \in SonsResolved(h, Post(i), s) :
                            /\ RowsAt(Post(i), q) # {}
                            /\ RowsAt(h.pre, q) = {}
                               => db_get_haplogroup(Post(i), q).haplogroup = h.label

\* a resumed run takes the fast path at a checkpointed profile that holds
\* another label, records the Conflict, and labels a son the Store links
\* to it
C34_Witness ==
    \E i \in 1..Len(hist) :
        LET h == hist[i]
        IN /\ h.op = "fullTree" /\ h.flag /\ h.status = "ok"
           /\ \E s \in ConflictingSons(h) :
                  /\ Recursed(h, s)
                  /\ ~InSeq(ResolverCalls(h, "get_sons"), <<"get_sons", s>>)
                  /\ <<s, h.label>> \in h.pre.explored
                  /\ \E q \in SonsResolved(h, Post(i), s) :
                         /\ RowsAt(h.pre, q) = {}
                         /\ db_get_haplogroup(Post(i), q).haplogroup = h.label


\* every profile whose father the directory reports is listed among that
\* father's children
Consistent(d) ==
    \A p \in Ids :
        LET males == SelectSeq(d.parents[p], LAMBDA q : d.gender[q] = "male")
        IN males # <<>> => InSeq(d.children[Head(males)], p)

\* C35 as stated: after propagateFullTree(anyId, L, resume=false) completes
\* with no fetch failures and no prior assignments on a consistent
\* directory, every profile on the ascent chain from anyId up to the root,
\* anyId included, has a current assignment with label L, for any gender of
\* anyId and any configured ascent and descent generation limits.
C35_StartProfileLabelled ==
    \A i \in 1..Len(hist) :
        LET h == hist[i]
        IN (/\ h.op = "fullTree" /\ ~h.flag /\ ~h.kill /\ h.failAt = NoFail
            /\ h.status = "ok"
            /\ h.pre.haplogroups = <<>>
            /\ Consistent(dir))
           => \A p \in {Canon(h.id)} \cup SeqToSet(FathersReturned(h.resolved)) :
                  /\ RowsAt(Post(i), p) # {}
                  /\ db_get_haplogroup(Post(i), p).haplogroup = h.label


\* C37: descend path shape: for every entry descend(startId, N) returns, the
\* path has generation + 1 elements, its first element is startId, its last
\* element is the entry's profile id, and each consecutive pair of the path
\* is a father and a son that resolveSons returned for that father during
\* the traversal.
C37_DescendPathShape ==
    \A i \in 1..Len(hist) :
        LET h == hist[i]
        IN (h.op = "descend" /\ h.status = "ok")
           => \A k \in 1..Len(h.ret) :
                  LET e == h.ret[k]
                  IN /\ Len(e.path) = e.generation + 1
                     /\ e.path[1] = h.id
                     /\ e.path[Len(e.path)] = IdOrGeniId(e.profile)
                     /\ \A j \in 1..(Len(e.path) - 1) :
                            \E n \in 1..Len(SonsReturned(h)) :
                                /\ SonsReturned(h)[n][3] = e.path[j]
                                /\ InSeq(IdsOf(SonsReturned(h)[n][4]), e.path[j + 1])

\* a descent three generations deep: the path of the deepest entry names the
\* start, two profiles in between and the entry's profile
C37_Witness ==
    \E i \in 1..Len(hist) :
        /\ hist[i].op = "descend" /\ hist[i].status = "ok"
        /\ \E k \in 1..Len(hist[i].ret) :
               /\ hist[i].ret[k].generation = MaxGen
               /\ Len(hist[i].ret[k].path) = MaxGen + 1
               /\ hist[i].ret[k].path[1] = hist[i].id
               /\ hist[i].ret[k].path[MaxGen + 1] = IdOrGeniId(hist[i].ret[k].profile)
               /\ Cardinality(SeqToSet(hist[i].ret[k].path)) = MaxGen + 1


\* C38: total_propagated counts exactly the rows a run inserted: at the end
\* of every propagateFullTree run, total_propagated equals the number of
\* Assignment rows the run added to the Store, each of those rows has the
\* run's label, and the number of Conflict entries equals the number of
\* assignLabel calls of the run that met a differing existing label; the
\* root's row (if inserted) is tagged with the caller's source and every
\* son's row with "propagated_<source>", is_tested = false and
\* confidence = propagated.
C38_TotalPropagatedCountsRows ==
    \A i \in 1..Len(hist) :
        LET h == hist[i]
            post == Post(i)
        IN (h.op = "fullTree" /\ h.status = "ok")
           => /\ IsPrefix(h.pre.haplogroups, post.haplogroups)
              /\ h.stats.total_propagated = Len(post.haplogroups) - Len(h.pre.haplogroups)
              /\ h.ret.total_propagated = h.stats.total_propagated
              /\ Len(h.stats.conflicts) =
                     Len(SelectSeq(Assigns(h), LAMBDA a : a[4] \notin {None, h.label}))
              /\ \A k \in (Len(h.pre.haplogroups) + 1)..Len(post.haplogroups) :
                     LET row == post.haplogroups[k]
                     IN /\ row.haplogroup = h.label
                        /\ IF row.profile_id = h.stats.root_profile_id
                           THEN row.source = h.source
                           ELSE /\ row.source = PropagatedSource(h.source)
                                /\ ~row.is_tested
                                /\ row.confidence = "propagated"

\* a run that inserts the root's row and a son's row and records a Conflict
C38_Witness ==
    \E i \in 1..Len(hist) :
        LET h == hist[i]
            post == Post(i)
        IN /\ h.op = "fullTree" /\ h.status = "ok"
           /\ h.stats.total_propagated >= 2
           /\ h.stats.total_propagated = Len(post.haplogroups) - Len(h.pre.haplogroups)
           /\ Len(h.stats.conflicts) >= 1
           /\ \E k \in (Len(h.pre.haplogroups) + 1)..Len(post.haplogroups) :
                  /\ post.haplogroups[k].profile_id = h.stats.root_profile_id
                  /\ post.haplogroups[k].source = h.source
           /\ \E k \in (Len(h.pre.haplogroups) + 1)..Len(post.haplogroups) :
                  /\ post.haplogroups[k].profile_id # h.stats.root_profile_id
                  /\ post.haplogroups[k].source = PropagatedSource(h.source)


(***************************************************************************)
(* Full-tree runs on directories and Stores whose father links form        *)
(* cycles, with one Directory Client call failing or none.                 *)
(***************************************************************************)
TerminateStarts == {"A", "C"}

NextTerminate ==
    /\ Len(hist) < MaxOps
    /\ \/ \E id \in TerminateStarts, resume \in BOOLEAN, failAt \in FailSets :
              PropagateFullTree(id, "R-Z", "FTDNA", resume, failAt)
       \/ \E f \in LinkIds, c \in LinkIds : AddPaternalLink(f, c, "manual", "uncertain")

SpecTerminate == InitCycle /\ [][NextTerminate]_vars

\* every full-tree run ends: its ascent asks for at most max_generations_up
\* fathers, its descent goes on from no profile at a generation above
\* max_generations_down, and it returns its Stats or raises
FullTreeBounded ==
    \A i \in 1..Len(hist) :
        LET h == hist[i]
        IN h.op = "fullTree"
           => /\ h.status \in {"ok", "IntegrityError"}
              /\ Len(ResolverCalls(h, "get_father")) <= max_gen_up
              /\ \A k \in 1..Len(Visits(h)) : Visits(h)[k][3] <= max_gen_down
              /\ Len(h.calls) <= MaxCalls

\* C39 as stated: propagateFullTree always terminates: for every directory
\* and Store content, father and son links forming cycles and fetch
\* failures included, and for both resume values, the ascent stops after at
\* most max_generations_up steps, the descent never visits a profile at a
\* generation greater than max_generations_down, and the run returns Stats.
C39_AlwaysReturnsStats ==
    \A i \in 1..Len(hist) :
        LET h == hist[i]
        IN h.op = "fullTree"
           => /\ Len(ResolverCalls(h, "get_father")) <= max_gen_up
              /\ \A k \in 1..Len(Visits(h)) : Visits(h)[k][3] <= max_gen_down
              /\ h.status = "ok"
              /\ h.ret = h.stats

====
